---------------------------- MODULE Spec2Model ----------------------------
(***************************************************************************)
(* A model of the entity-selector parser and evaluator of RawMessageUtil.  *)
(*                                                                         *)
(* The repository holds two versions of the class EntitySelector:          *)
(*   "ESP"  src/EntitySelectorParser.ts                                    *)
(*   "P0"   src/unnamed/part_000                                           *)
(* The variable `variant` says which of the two a behaviour runs.          *)
(*                                                                         *)
(* Strings are sequences of one-character strings, so that every string    *)
(* operation of the code (trim, split, startsWith, the regular             *)
(* expressions, parseInt, JSON.parse) is computed character by character.  *)
(* Optional values (a field that may be undefined) are sequences of length *)
(* at most one: <<>> is undefined, <<v>> is the value v.                   *)
(***************************************************************************)
EXTENDS Integers, Sequences, FiniteSets, TLC

VARIABLES
  pc,                   \* position of the behaviour: which step has run
  variant,              \* "ESP" or "P0": the source file being run
  selectorString,       \* EntitySelector.selectorString
  executionLocation,    \* EntitySelector.executionLocation (optional Vector3)
  executor,             \* EntitySelector.executor (optional entity id)
  targetSelectorSymbol, \* EntitySelector.targetSelectorSymbol
  queryOptions,         \* EntitySelector.queryOptions
  hasItemFilters,       \* EntitySelector.hasItemFilters
  thrown,               \* TRUE when an exception left the constructor
  argsString,           \* the input of the tokenizer at the head of _parseArguments
  args,                 \* the raw tokens it produced (the local `args`)
  world,                \* the dimension: [pool, objectives]
  entities,             \* what getEntities() returned (indices into world.pool)
  trace,                \* the intermediate lists of that call of getEntities()
  calls,                \* the number of calls of getEntities() made so far
  parser,               \* the message formatter class being run, "none" if none
  rawInput,             \* the array of RawMessage components given to parse
  pieces,               \* per component: its text and how its selector resolved
  returned,             \* what parse returned, <<>> before it returns
  escaped               \* TRUE when an exception left parse

vars == <<pc, variant, selectorString, executionLocation, executor,
          targetSelectorSymbol, queryOptions, hasItemFilters, thrown,
          argsString, args, world, entities, trace, calls,
          parser, rawInput, pieces, returned, escaped>>

\* The state of an EntitySelector and the state of a message formatter.
selectorVars == <<targetSelectorSymbol, queryOptions, hasItemFilters, thrown,
                  argsString, args, entities, trace, calls>>
formatterVars == <<parser, rawInput, pieces, returned, escaped>>

---------------------------------------------------------------------------
(* Bounds of the model.                                                    *)

MaxTokLen == 4          \* longest argument string given to the tokenizer alone
MaxArgs == 2            \* most arguments of a composed selector
MaxRangeLen == 4        \* most pieces of a text given to the range grammar
MaxExtent == 2          \* largest extent of a volume along the z axis
MaxScorers == 2         \* players of a world of the scores specification
InventorySize == 3      \* slots of the container of the player that holds items
MaxCoord == 3           \* largest x coordinate of the @p specification
MaxNearby == 2          \* entities of a world of the @p specification
MaxCalls == 2           \* most calls of getEntities() on one EntitySelector

---------------------------------------------------------------------------
(* Strings.                                                                *)

Str(S, n) == UNION {[1..k -> S] : k \in 0..n}

IsWs(c) == c = " "

\* The string without its leading white space.
TrimStart(s) ==
  IF \A i \in 1..Len(s) : IsWs(s[i]) THEN <<>>
  ELSE SubSeq(s, CHOOSE i \in 1..Len(s) :
                   ~IsWs(s[i]) /\ \A j \in 1..(i - 1) : IsWs(s[j]),
              Len(s))

\* The string without its trailing white space.
TrimEnd(s) ==
  IF \A i \in 1..Len(s) : IsWs(s[i]) THEN <<>>
  ELSE SubSeq(s, 1, CHOOSE i \in 1..Len(s) :
                      ~IsWs(s[i]) /\ \A j \in (i + 1)..Len(s) : IsWs(s[j]))

\* String.prototype.trim
Trim(s) == TrimEnd(TrimStart(s))

\* String.prototype.startsWith / endsWith
StartsWith(s, p) == Len(p) <= Len(s) /\ SubSeq(s, 1, Len(p)) = p
EndsWith(s, p) == Len(p) <= Len(s) /\ SubSeq(s, Len(s) - Len(p) + 1, Len(s)) = p

\* String.prototype.substring(from) with a 0-based index
SubstringFrom(s, from) == SubSeq(s, from + 1, Len(s))

\* String.prototype.includes for a one-character needle
Includes(s, c) == \E i \in 1..Len(s) : s[i] = c

\* String.prototype.split(sep) for a one-character separator: a sequence of
\* strings, never empty (splitting "" gives [""]).
Split(s, sep) ==
  LET cuts   == {i \in 1..Len(s) : s[i] = sep}
      cut(k) == CHOOSE c \in cuts : Cardinality({d \in cuts : d < c}) = k - 1
  IN  [k \in 1..(Cardinality(cuts) + 1) |->
         SubSeq(s, IF k = 1 THEN 1 ELSE cut(k - 1) + 1,
                   IF k = Cardinality(cuts) + 1 THEN Len(s) ELSE cut(k) - 1)]

\* Array.prototype.join(sep)
RECURSIVE Join(_, _)
Join(parts, sep) ==
  IF parts = <<>> THEN <<>>
  ELSE IF Len(parts) = 1 THEN parts[1]
  ELSE parts[1] \o sep \o Join(Tail(parts), sep)

---------------------------------------------------------------------------
(* Numbers.  The numbers of the model are integers; NaN is an integer      *)
(* outside the range of every number a behaviour computes.                 *)

NaN == 0 - 1000000

IsNaN(n) == n = NaN

\* The comparisons of JavaScript: every comparison with NaN is false.
JsLt(a, b) == ~IsNaN(a) /\ ~IsNaN(b) /\ a < b
JsGt(a, b) == ~IsNaN(a) /\ ~IsNaN(b) /\ a > b
JsLe(a, b) == ~IsNaN(a) /\ ~IsNaN(b) /\ a <= b
JsGe(a, b) == ~IsNaN(a) /\ ~IsNaN(b) /\ a >= b

Digits == {"0", "1", "2", "3", "4", "5", "6", "7", "8", "9"}

IsDigit(c) == c \in Digits

DigitVal(c) ==
  CASE c = "0" -> 0 [] c = "1" -> 1 [] c = "2" -> 2 [] c = "3" -> 3 [] c = "4" -> 4
    [] c = "5" -> 5 [] c = "6" -> 6 [] c = "7" -> 7 [] c = "8" -> 8 [] c = "9" -> 9

DigitChar(d) ==
  CASE d = 0 -> "0" [] d = 1 -> "1" [] d = 2 -> "2" [] d = 3 -> "3" [] d = 4 -> "4"
    [] d = 5 -> "5" [] d = 6 -> "6" [] d = 7 -> "7" [] d = 8 -> "8" [] d = 9 -> "9"

\* The index after the run of digits of s that starts at i.
RECURSIVE DigitsEnd(_, _)
DigitsEnd(s, i) ==
  IF i <= Len(s) /\ IsDigit(s[i]) THEN DigitsEnd(s, i + 1) ELSE i

\* The value of the digits s[i..j-1], continuing from acc.
RECURSIVE DigitsValue(_, _, _, _)
DigitsValue(s, i, j, acc) ==
  IF i >= j THEN acc ELSE DigitsValue(s, i + 1, j, acc * 10 + DigitVal(s[i]))

\* The index of the first digit of a number text: after an optional sign.
FirstDigit(t) == IF t # <<>> /\ t[1] \in {"-", "+"} THEN 2 ELSE 1

\* The number whose digits are t[first..end-1], NaN when there is none.
SignedDigits(t, first, end) ==
  IF end = first THEN NaN
  ELSE (IF t[1] = "-" THEN 0 - 1 ELSE 1) * DigitsValue(t, first, end, 0)

\* The number at the head of a text without leading white space: an
\* optional sign, then the longest run of digits.
NumericPrefix(t) == SignedDigits(t, FirstDigit(t), DigitsEnd(t, FirstDigit(t)))

\* parseInt(s, 10): leading white space, an optional sign, then the longest
\* run of digits; NaN when there is no digit there.
ParseInt(s) == NumericPrefix(TrimStart(s))

\* parseFloat(s) on the strings of the model, whose numeric prefix never
\* has a fraction digit or an exponent: white space, sign, digits.
ParseFloat(s) == NumericPrefix(TrimStart(s))

\* String(n) of an integer.
RECURSIVE NatToStr(_)
NatToStr(n) ==
  IF n < 10 THEN <<DigitChar(n)>> ELSE Append(NatToStr(n \div 10), DigitChar(n % 10))

IntToStr(n) == IF n < 0 THEN <<"-">> \o NatToStr(0 - n) ELSE NatToStr(n)

\* The index of the first digit of -?\d+: after an optional minus sign.
AfterMinus(s) == IF s # <<>> /\ s[1] = "-" THEN 2 ELSE 1

\* s matches -?\d+ in full.
IsSignedInt(s) == AfterMinus(s) <= Len(s) /\ DigitsEnd(s, AfterMinus(s)) = Len(s) + 1

\* The match of the range expression whose group 1 is s[1..aEnd-1] and
\* whose text after the two dots is rest.
RangeGroups(s, aEnd, rest) ==
  IF /\ aEnd + 1 <= Len(s) /\ s[aEnd] = "." /\ s[aEnd + 1] = "."
     /\ (rest = <<>> \/ IsSignedInt(rest))
    THEN [matched |-> TRUE,
          g1 |-> IF aEnd > 1 THEN <<SubSeq(s, 1, aEnd - 1)>> ELSE <<>>,
          g2 |-> IF rest # <<>> THEN <<rest>> ELSE <<>>]
    ELSE [matched |-> FALSE, g1 |-> <<>>, g2 |-> <<>>]

\* The index after group 1, which ends at `end` when it holds a digit and is
\* empty otherwise.
GroupOneEnd(first, end) == IF end > first THEN end ELSE 1

RangeGroupsFrom(s, aEnd) == RangeGroups(s, aEnd, SubSeq(s, aEnd + 2, Len(s)))

\* s.match(/^(-?\d+)?\.\.(-?\d+)?$/): whether it matches, and groups 1 and 2
\* (<<>> when the group did not take part).
MatchRange(s) == RangeGroupsFrom(s, GroupOneEnd(AfterMinus(s), DigitsEnd(s, AfterMinus(s))))

NoRange == [min |-> <<>>, max |-> <<>>]

\* The bounds of a text that matched the range expression.
RangeOfMatch(m) ==
  [min |-> IF m.g1 # <<>> THEN <<ParseInt(m.g1[1])>> ELSE <<>>,
   max |-> IF m.g2 # <<>> THEN <<ParseInt(m.g2[1])>> ELSE <<>>]

\* The bounds of a text that did not: exact when parseInt reads a number.
RangeOfNumber(n) == IF ~IsNaN(n) THEN [min |-> <<n>>, max |-> <<n>>] ELSE NoRange

RangeOf(s, m) == IF m.matched THEN RangeOfMatch(m) ELSE RangeOfNumber(ParseInt(s))

\* The range grammar the code applies to a scores value, to a quantity and
\* to a slot: the range expression first, parseInt otherwise.
ParseRange(s) == RangeOf(s, MatchRange(s))

\* value.replace(/^"|"$/g, ""): one quote taken from each end.
StripQuotes(s) ==
  LET a == IF s # <<>> /\ s[1] = "\"" THEN Tail(s) ELSE s
  IN  IF a # <<>> /\ a[Len(a)] = "\"" THEN SubSeq(a, 1, Len(a) - 1) ELSE a

---------------------------------------------------------------------------
(* JSON.parse.  A value is a record tagged by t: "num" (n), "str" (s),     *)
(* "bool" (b), "null", "arr" (a: the elements), "obj" (m: the members in   *)
(* source order, each [k, v]).  A parse step returns [ok, v, pos]: whether *)
(* a value was read, the value, and the index after it.  The texts of the  *)
(* model hold no control character and no backslash other than the ones    *)
(* the code writes before a quote, and no fraction or exponent.            *)

JNull == [t |-> "null"]
JFail == [ok |-> FALSE, v |-> JNull, pos |-> 0]

RECURSIVE SkipWs(_, _)
SkipWs(s, i) == IF i <= Len(s) /\ IsWs(s[i]) THEN SkipWs(s, i + 1) ELSE i

\* The word w stands at index i of s.
At(s, i, w) == i + Len(w) - 1 <= Len(s) /\ SubSeq(s, i, i + Len(w) - 1) = w

\* A string literal whose opening quote is at i - 1: the characters from i
\* to the closing quote, \" \\ and \/ decoded.
RECURSIVE JsonStringBody(_, _, _)
JsonStringBody(s, i, acc) ==
  IF i > Len(s) THEN JFail
  ELSE IF s[i] = "\"" THEN [ok |-> TRUE, v |-> [t |-> "str", s |-> acc], pos |-> i + 1]
  ELSE IF s[i] = "\\"
    THEN IF i + 1 <= Len(s) /\ s[i + 1] \in {"\"", "\\", "/"}
           THEN JsonStringBody(s, i + 2, Append(acc, s[i + 1]))
           ELSE JFail
  ELSE JsonStringBody(s, i + 1, Append(acc, s[i]))

\* The number whose digits are s[first..end-1], i being where its text
\* starts: no digit, or a leading zero, is no number.
JsonDigits(s, i, first, end) ==
  IF end = first THEN JFail
  ELSE IF s[first] = "0" /\ end > first + 1 THEN JFail
  ELSE [ok |-> TRUE,
        v |-> [t |-> "num",
               n |-> (IF first > i THEN 0 - 1 ELSE 1) * DigitsValue(s, first, end, 0)],
        pos |-> end]

JsonNumberFrom(s, i, first) == JsonDigits(s, i, first, DigitsEnd(s, first))

\* A number: -? (0 | [1-9][0-9]*), with no fraction and no exponent.
JsonNumber(s, i) == JsonNumberFrom(s, i, IF s[i] = "-" THEN i + 1 ELSE i)

RECURSIVE JsonValue(_, _)
RECURSIVE JsonElements(_, _, _)
RECURSIVE JsonMembers(_, _, _)

\* After the elements acc, at j: a comma and more elements, or "]".
ElementsNext(s, acc, j) ==
  IF j > Len(s) THEN JFail
  ELSE IF s[j] = "," THEN JsonElements(s, j + 1, acc)
  ELSE IF s[j] = "]" THEN [ok |-> TRUE, v |-> [t |-> "arr", a |-> acc], pos |-> j + 1]
  ELSE JFail

\* The element e read after the elements acc.
ElementRead(s, acc, e) ==
  IF ~e.ok THEN JFail ELSE ElementsNext(s, Append(acc, e.v), SkipWs(s, e.pos))

\* The elements of an array after "[" or after a comma, up to "]".
JsonElements(s, i, acc) == ElementRead(s, acc, JsonValue(s, SkipWs(s, i)))

\* After the members mem, at j: a comma and more members, or "}".
MembersNext(s, mem, j) ==
  IF j > Len(s) THEN JFail
  ELSE IF s[j] = "," THEN JsonMembers(s, j + 1, mem)
  ELSE IF s[j] = "}" THEN [ok |-> TRUE, v |-> [t |-> "obj", m |-> mem], pos |-> j + 1]
  ELSE JFail

\* The value val read for the key k after the members acc.
MemberRead(s, acc, k, val) ==
  IF ~val.ok THEN JFail
  ELSE MembersNext(s, Append(acc, [k |-> k, v |-> val.v]), SkipWs(s, val.pos))

\* The colon expected at c after the key k, and the value after it.
MemberColon(s, acc, k, c) ==
  IF c > Len(s) \/ s[c] # ":" THEN JFail
  ELSE MemberRead(s, acc, k, JsonValue(s, SkipWs(s, c + 1)))

\* The key read after the members acc.
MemberKeyRead(s, acc, key) ==
  IF ~key.ok THEN JFail ELSE MemberColon(s, acc, key.v.s, SkipWs(s, key.pos))

\* The opening quote of a key expected at k0.
MemberKey(s, acc, k0) ==
  IF k0 > Len(s) \/ s[k0] # "\"" THEN JFail
  ELSE MemberKeyRead(s, acc, JsonStringBody(s, k0 + 1, <<>>))

\* The members of an object after "{" or after a comma, up to "}".
JsonMembers(s, i, acc) == MemberKey(s, acc, SkipWs(s, i))

\* The character c stands at index j of s.
CharAt(s, j, c) == j <= Len(s) /\ s[j] = c

JsonValue(s, i) ==
  IF i > Len(s) THEN JFail
  ELSE IF s[i] = "{"
    THEN IF CharAt(s, SkipWs(s, i + 1), "}")
           THEN [ok |-> TRUE, v |-> [t |-> "obj", m |-> <<>>], pos |-> SkipWs(s, i + 1) + 1]
           ELSE JsonMembers(s, i + 1, <<>>)
  ELSE IF s[i] = "["
    THEN IF CharAt(s, SkipWs(s, i + 1), "]")
           THEN [ok |-> TRUE, v |-> [t |-> "arr", a |-> <<>>], pos |-> SkipWs(s, i + 1) + 1]
           ELSE JsonElements(s, i + 1, <<>>)
  ELSE IF s[i] = "\"" THEN JsonStringBody(s, i + 1, <<>>)
  ELSE IF At(s, i, <<"t", "r", "u", "e">>)
    THEN [ok |-> TRUE, v |-> [t |-> "bool", b |-> TRUE], pos |-> i + 4]
  ELSE IF At(s, i, <<"f", "a", "l", "s", "e">>)
    THEN [ok |-> TRUE, v |-> [t |-> "bool", b |-> FALSE], pos |-> i + 5]
  ELSE IF At(s, i, <<"n", "u", "l", "l">>)
    THEN [ok |-> TRUE, v |-> JNull, pos |-> i + 4]
  ELSE IF s[i] = "-" \/ IsDigit(s[i]) THEN JsonNumber(s, i)
  ELSE JFail

\* The value r read from the head of text: nothing but white space may
\* follow it.
WholeText(text, r) ==
  IF r.ok /\ SkipWs(text, r.pos) = Len(text) + 1
    THEN [ok |-> TRUE, v |-> r.v]
    ELSE [ok |-> FALSE, v |-> JNull]

\* JSON.parse(text): [ok, v]; ok is FALSE where JSON.parse throws.
JsonParse(text) == WholeText(text, JsonValue(text, SkipWs(text, 1)))

\* v[key] for a parsed value v that is not null: <<>> when undefined.  The
\* last member of that name wins; only an object has the keys read here.
RECURSIVE LastMember(_, _, _)
LastMember(m, key, i) ==
  IF i = 0 THEN <<>>
  ELSE IF m[i].k = key THEN <<m[i].v>> ELSE LastMember(m, key, i - 1)

JsonGet(v, key) == IF v.t = "obj" THEN LastMember(v.m, key, Len(v.m)) ELSE <<>>

\* String(v) of a parsed value.
RECURSIVE JsonToString(_)
RECURSIVE JsonJoin(_, _)
JsonJoin(a, i) ==
  IF i > Len(a) THEN <<>>
  ELSE (IF i > 1 THEN <<",">> ELSE <<>>)
       \o (IF a[i].t = "null" THEN <<>> ELSE JsonToString(a[i]))
       \o JsonJoin(a, i + 1)

JsonToString(v) ==
  CASE v.t = "str"  -> v.s
    [] v.t = "num"  -> IntToStr(v.n)
    [] v.t = "bool" -> IF v.b THEN <<"t", "r", "u", "e">> ELSE <<"f", "a", "l", "s", "e">>
    [] v.t = "null" -> <<"n", "u", "l", "l">>
    [] v.t = "obj"  -> <<"[", "o", "b", "j", "e", "c", "t", " ", "O", "b", "j", "e", "c", "t", "]">>
    [] v.t = "arr"  -> JsonJoin(v.a, 1)

---------------------------------------------------------------------------
(* The hasitem value: from a parsed JSON array to HasItemFilter records.   *)
(* A filter is [item, quantity, data, location, slot], each optional;      *)
(* quantity and slot hold a range [min, max] of optional bounds.           *)

W_item     == <<"i", "t", "e", "m">>
W_quantity == <<"q", "u", "a", "n", "t", "i", "t", "y">>
W_data     == <<"d", "a", "t", "a">>
W_location == <<"l", "o", "c", "a", "t", "i", "o", "n">>
W_slot     == <<"s", "l", "o", "t">>

\* The quantity / slot range of src/EntitySelectorParser.ts: a number is
\* exact, a string goes through the range grammar, anything else sets no
\* bound.
FieldRangeESP(v) ==
  IF v.t = "num" THEN [min |-> <<v.n>>, max |-> <<v.n>>]
  ELSE IF v.t = "str" THEN ParseRange(v.s)
  ELSE NoRange

\* The quantity / slot range of src/unnamed/part_000: a number is exact,
\* anything else goes through the range grammar as String(v).
FieldRangeP0(v) ==
  IF v.t = "num" THEN [min |-> <<v.n>>, max |-> <<v.n>>]
  ELSE ParseRange(JsonToString(v))

FieldRange(vr, v) == IF vr = "ESP" THEN FieldRangeESP(v) ELSE FieldRangeP0(v)

\* String(field) of a field that is defined.
FilterString(field) == IF field # <<>> THEN <<JsonToString(field[1])>> ELSE <<>>

\* The range of a quantity or slot that is defined, noField otherwise.
FilterRange(vr, field, noField) ==
  IF field # <<>> THEN <<FieldRange(vr, field[1])>> ELSE noField

\* parseInt(String(data), 10) of a data that is defined.
FilterData(field) ==
  IF field = <<>> THEN <<>>
  ELSE IF field[1].t = "num" THEN <<field[1].n>>
  ELSE <<ParseInt(JsonToString(field[1]))>>

\* The filter built from one element, noQuantity being the quantity of an
\* element that names none.
ItemFilterFields(vr, ic, noQuantity) ==
  [item     |-> FilterString(JsonGet(ic, W_item)),
   quantity |-> FilterRange(vr, JsonGet(ic, W_quantity), noQuantity),
   data     |-> FilterData(JsonGet(ic, W_data)),
   location |-> FilterString(JsonGet(ic, W_location)),
   slot     |-> FilterRange(vr, JsonGet(ic, W_slot), <<>>)]

\* A filter whose quantity is never defaulted (what the code would be
\* without `filter.quantity = { min: 1 }`).
ItemFilterOfNoDefault(vr, ic) == ItemFilterFields(vr, ic, <<>>)

\* The body of `for (const itemCondition of parsedItems)`: the filter built
\* from one element that is not null.
ItemFilterOf(vr, ic) == ItemFilterFields(vr, ic, <<[min |-> <<1>>, max |-> <<>>]>>)

\* The loop over parsedItems: [items, exc].  Reading a field of a null
\* element throws a TypeError; the filters pushed before it stay.
RECURSIVE PushItemFilters(_, _, _, _)
PushItemFilters(vr, a, i, items) ==
  IF i > Len(a) THEN [items |-> items, exc |-> FALSE]
  ELSE IF a[i].t = "null" THEN [items |-> items, exc |-> TRUE]
  ELSE PushItemFilters(vr, a, i + 1, Append(items, ItemFilterOf(vr, a[i])))

---------------------------------------------------------------------------
(* The hasitem value of src/EntitySelectorParser.ts: three regular         *)
(* expression replacements, then JSON.parse.                               *)

LowerLetters ==
  {"a", "b", "c", "d", "e", "f", "g", "h", "i", "j", "k", "l", "m",
   "n", "o", "p", "q", "r", "s", "t", "u", "v", "w", "x", "y", "z"}

\* [a-zA-Z0-9_]
IsWordChar(c) == c \in LowerLetters \cup Digits \cup {"_", "O"}

IsQuote(c) == c \in {"'", "\""}

RECURSIVE WordEnd(_, _)
WordEnd(s, i) == IF i <= Len(s) /\ IsWordChar(s[i]) THEN WordEnd(s, i + 1) ELSE i

\* A pass over the positions lo..hi of a text, left to right, that turns the
\* text into another: `out` is what is written so far and `next` the first
\* position that no replacement has consumed yet.  The range is halved so
\* that the evaluation nests no deeper than the logarithm of its length.
NoOutput == [out |-> <<>>, next |-> 1, stop |-> FALSE]

\* .replace(/"/g, '\\"') at position i
EscapeQuotesStep(s, i, st) ==
  [st EXCEPT !.out = @ \o (IF s[i] = "\"" THEN <<"\\", "\"">> ELSE <<s[i]>>),
             !.next = i + 1]

RECURSIVE EscapeQuotesPass(_, _, _, _)
EscapeQuotesPass(s, lo, hi, st) ==
  IF lo > hi THEN st
  ELSE IF lo = hi THEN EscapeQuotesStep(s, lo, st)
  ELSE LET left == EscapeQuotesPass(s, lo, (lo + hi) \div 2, st) IN
         IF left.stop THEN left ELSE EscapeQuotesPass(s, (lo + hi) \div 2 + 1, hi, left)

\* p1.trim().replace(/"/g, '\\"')
EscapeQuotes(s) == EscapeQuotesPass(s, 1, Len(s), NoOutput).out

\* The word of a key starts after a quote, if one stands at i.
KeyWordStart(s, i) == IF IsQuote(s[i]) THEN i + 1 ELSE i

\* The index after the quote that may follow the word ending before e.
AfterKeyQuote(s, e) == IF e <= Len(s) /\ IsQuote(s[e]) THEN e + 1 ELSE e

\* The word s[w0..e-1] with a colon at c is a key and is rewritten; any
\* other character at i is copied.
ReplaceKeyAt(s, i, st, w0, e, c) ==
  IF e > w0 /\ c <= Len(s) /\ s[c] = ":"
    THEN [st EXCEPT !.out = @ \o <<"\"">> \o SubSeq(s, w0, e - 1) \o <<"\"", ":">>,
                    !.next = c + 1]
    ELSE [st EXCEPT !.out = Append(@, s[i]), !.next = i + 1]

ReplaceKeyWord(s, i, st, w0, e) ==
  ReplaceKeyAt(s, i, st, w0, e, SkipWs(s, AfterKeyQuote(s, e)))

ReplaceKeyFrom(s, i, st, w0) == ReplaceKeyWord(s, i, st, w0, WordEnd(s, w0))

\* .replace(/(['"])?([a-zA-Z0-9_]+)(['"])?\s*:/g, '"$2":'): a run of word
\* characters, with a quote before and after it or not, then white space and
\* a colon, becomes the run in double quotes and the colon.
ReplaceKeysStep(s, i, st) ==
  IF i < st.next THEN st ELSE ReplaceKeyFrom(s, i, st, KeyWordStart(s, i))

RECURSIVE ReplaceKeysPass(_, _, _, _)
ReplaceKeysPass(s, lo, hi, st) ==
  IF lo > hi THEN st
  ELSE IF lo = hi THEN ReplaceKeysStep(s, lo, st)
  ELSE LET left == ReplaceKeysPass(s, lo, (lo + hi) \div 2, st) IN
         IF left.stop THEN left ELSE ReplaceKeysPass(s, (lo + hi) \div 2 + 1, hi, left)

ReplaceKeys(s) == ReplaceKeysPass(s, 1, Len(s), NoOutput).out

\* The negative lookahead (?!true|false|-?\d+\.?\d*|{|\[|") fails at i.
LooksLikeLiteral(s, i) ==
  \/ At(s, i, <<"t", "r", "u", "e">>)
  \/ At(s, i, <<"f", "a", "l", "s", "e">>)
  \/ i <= Len(s) /\ IsDigit(s[i])
  \/ i + 1 <= Len(s) /\ s[i] = "-" /\ IsDigit(s[i + 1])
  \/ i <= Len(s) /\ s[i] \in {"{", "[", "\""}

\* :\s*(?!...) matches at the colon at i: \s* may give back white space, and
\* a white-space character passes the lookahead.
ColonValueMatches(s, i) ==
  s[i] = ":" /\ (SkipWs(s, i + 1) > i + 1 \/ ~LooksLikeLiteral(s, i + 1))

IsTerminator(c) == c \in {",", "}", "]"}

\* The first index from i on that holds , } or ]; Len(s) + 1 when none does.
TerminatorFrom(s, i) ==
  IF \E t \in i..Len(s) : IsTerminator(s[t])
    THEN CHOOSE t \in i..Len(s) :
           IsTerminator(s[t]) /\ \A u \in i..(t - 1) : ~IsTerminator(s[u])
    ELSE Len(s) + 1

\* The value after the colon at i, up to the terminator at t, is rewritten
\* when the expression matches there; else the character at i is copied.
ReplaceValueUpTo(s, i, st, t) ==
  IF ColonValueMatches(s, i) /\ t <= Len(s)
    THEN [st EXCEPT !.out = @ \o <<":", " ", "\"">>
                              \o EscapeQuotes(Trim(SubSeq(s, i + 1, t - 1)))
                              \o <<"\"", s[t]>>,
                    !.next = t + 1]
    ELSE [st EXCEPT !.out = Append(@, s[i]), !.next = i + 1]

\* .replace(/:\s*(?!...)(.*?)([,}\]])/g, ': "<p1 trimmed, quotes escaped>"<p2>')
ReplaceValuesStep(s, i, st) ==
  IF i < st.next THEN st ELSE ReplaceValueUpTo(s, i, st, TerminatorFrom(s, i + 1))

RECURSIVE ReplaceValuesPass(_, _, _, _)
ReplaceValuesPass(s, lo, hi, st) ==
  IF lo > hi THEN st
  ELSE IF lo = hi THEN ReplaceValuesStep(s, lo, st)
  ELSE LET left == ReplaceValuesPass(s, lo, (lo + hi) \div 2, st) IN
         IF left.stop THEN left ELSE ReplaceValuesPass(s, (lo + hi) \div 2 + 1, hi, left)

ReplaceValues(s) == ReplaceValuesPass(s, 1, Len(s), NoOutput).out

\* The text with everything after the colon at i rewritten as one value.
ReplaceValueFrom(s, i) ==
  SubSeq(s, 1, i - 1) \o <<":", " ", "\"">>
    \o EscapeQuotes(Trim(SubSeq(s, i + 1, Len(s)))) \o <<"\"">>

\* .replace(/:\s*(?!...)(.*?)$/g, ': "<p1 trimmed, quotes escaped>"'): from
\* the first colon it matches at to the end of the text.
ReplaceLastValue(s) ==
  IF \E i \in 1..Len(s) : ColonValueMatches(s, i)
    THEN ReplaceValueFrom(s, CHOOSE i \in 1..Len(s) :
           ColonValueMatches(s, i) /\ \A j \in 1..(i - 1) : ~ColonValueMatches(s, j))
    ELSE s

\* jsonCompliantValue
JsonCompliantValue(v) == ReplaceLastValue(ReplaceValues(ReplaceKeys(v)))

\* parsedItems, as [exc, skip, a]: exc when the block has thrown, skip when
\* it left the case with `break` before the loop, a the elements otherwise.
ItemsThrown == [exc |-> TRUE, skip |-> FALSE, a |-> <<>>]
ItemsSkipped == [exc |-> FALSE, skip |-> TRUE, a |-> <<>>]

ParsedItems(a) == [exc |-> FALSE, skip |-> FALSE, a |-> a]

\* parsedItems from the result r of JSON.parse, the text being an array
\* (parsedItems = r) or an object (parsedItems = [r]).
ParsedItemsOf(r, isArray) ==
  IF ~r.ok THEN ItemsThrown
  ELSE IF isArray THEN ParsedItems(r.v.a)
  ELSE ParsedItems(<<r.v>>)

\* `for (const itemCondition of parsedItems)` when the block got that far.
PushParsedItems(vr, parsed, items) ==
  IF parsed.exc THEN [items |-> items, exc |-> TRUE]
  ELSE IF parsed.skip THEN [items |-> items, exc |-> FALSE]
  ELSE PushItemFilters(vr, parsed.a, 1, items)

\* parsedItems of src/EntitySelectorParser.ts for the rewritten text j.
ParsedItemsESP(j) ==
  IF StartsWith(j, <<"[">>) \/ StartsWith(j, <<"{">>)
    THEN ParsedItemsOf(JsonParse(j), StartsWith(j, <<"[">>))
    ELSE ItemsSkipped

\* The try block of case "hasitem" in src/EntitySelectorParser.ts:
\* [items, exc], exc when an exception leaves the block.
HasItemTryESP(trimmedValue, items) ==
  PushParsedItems("ESP", ParsedItemsESP(JsonCompliantValue(trimmedValue)), items)

---------------------------------------------------------------------------
(* The hasitem value of src/unnamed/part_000: the array is cut into object *)
(* strings, each object string into key=value pairs, each pair is written  *)
(* as a JSON member, and the text is given to JSON.parse.                  *)

\* The index after the fraction that may follow the digits ending before e1.
FractionEnd(value, e1) ==
  IF e1 <= Len(value) /\ value[e1] = "." THEN DigitsEnd(value, e1 + 1) ELSE e1

\* isFinite(Number(value)) for a trimmed value with no exponent, hexadecimal
\* digits or "Infinity": a sign, then digits with an optional point and
\* fraction, or a point and digits.  parseFloat is then no NaN either.
IsNumericLiteral(value) ==
  /\ FractionEnd(value, DigitsEnd(value, FirstDigit(value))) = Len(value) + 1
  /\ \E i \in FirstDigit(value)..Len(value) : IsDigit(value[i])

\* value.toLowerCase(): the values of the model hold no upper-case letter.
ToLowerCase(value) == value

\* The body of the first loop of parseObjectString: a "{" is dropped, a "}"
\* is kept, a comma at depth 0 ends a pair.
AssignmentsStep(objStr, i, st) ==
  LET char == objStr[i] IN
    IF char = "{" THEN [st EXCEPT !.braceDepth = @ + 1]
    ELSE IF char = "}"
      THEN [st EXCEPT !.braceDepth = @ - 1, !.currentPair = Append(@, char)]
    ELSE IF char = "," /\ st.braceDepth = 0
      THEN [st EXCEPT !.assignments = Append(@, Trim(st.currentPair)),
                      !.currentPair = <<>>]
    ELSE [st EXCEPT !.currentPair = Append(@, char)]

\* for (let i = 0; i < objStr.length; i++), the range halved so that the
\* evaluation nests no deeper than the logarithm of its length.
RECURSIVE AssignmentsLoop(_, _, _, _)
AssignmentsLoop(objStr, lo, hi, st) ==
  IF lo > hi THEN st
  ELSE IF lo = hi THEN AssignmentsStep(objStr, lo, st)
  ELSE LET left == AssignmentsLoop(objStr, lo, (lo + hi) \div 2, st) IN
         IF left.stop THEN left ELSE AssignmentsLoop(objStr, (lo + hi) \div 2 + 1, hi, left)

\* `if (currentPair.trim()) assignments.push(currentPair.trim())`
PushLastPair(assignments, lastPair) ==
  IF lastPair # <<>> THEN Append(assignments, lastPair) ELSE assignments

AssignmentsAfter(st) == PushLastPair(st.assignments, Trim(st.currentPair))

\* `assignments` after the loop and the push of the last pair.
Assignments(objStr) ==
  AssignmentsAfter(AssignmentsLoop(objStr, 1, Len(objStr),
                                   [assignments |-> <<>>, currentPair |-> <<>>,
                                    braceDepth |-> 0, stop |-> FALSE]))

\* processedValue
ProcessedValue(value) ==
  IF IsNumericLiteral(value) THEN value
  ELSE IF ToLowerCase(value) \in {<<"t", "r", "u", "e">>, <<"f", "a", "l", "s", "e">>}
    THEN ToLowerCase(value)
  ELSE IF StartsWith(value, <<"\"">>) /\ EndsWith(value, <<"\"">>) THEN value
  ELSE <<"\"">> \o EscapeQuotes(value) \o <<"\"">>

\* `${quotedKey}:${processedValue}` for assign.split("=")
JsonPairOf(parts) ==
  <<"\"">> \o Trim(parts[1]) \o <<"\"", ":">>
    \o ProcessedValue(Trim(Join(Tail(parts), <<"=">>)))

\* One element of jsonPairs.
JsonPair(assign) == JsonPairOf(Split(assign, "="))

RECURSIVE JsonPairs(_, _)
JsonPairs(assignments, i) ==
  IF i > Len(assignments) THEN <<>>
  ELSE <<JsonPair(assignments[i])>> \o JsonPairs(assignments, i + 1)

\* parseObjectString(objStr)
ParseObjectString(objStr) ==
  <<"{">> \o Join(JsonPairs(Assignments(objStr), 1), <<",">>)
  \o <<"}">>

\* The body of the loop that cuts arrayContent into objectStrings; i is the
\* 1-based position of the character, i - 1 the index of the code.
ObjectStringsStep(arrayContent, i, st) ==
  LET ch == arrayContent[i] IN
    IF ch = "{" THEN [st EXCEPT !.balance = @ + 1]
    ELSE IF ch = "}" THEN [st EXCEPT !.balance = @ - 1]
    ELSE IF ch = "," /\ st.balance = 0 /\ i - 1 > st.startIndex
      THEN [st EXCEPT !.objectStrings =
                        Append(@, SubSeq(arrayContent, st.startIndex + 1, i - 1)),
                      !.startIndex = i]
    ELSE st

\* for (let i = 0; i < arrayContent.length; i++), halved as above.
RECURSIVE ObjectStringsLoop(_, _, _, _)
ObjectStringsLoop(arrayContent, lo, hi, st) ==
  IF lo > hi THEN st
  ELSE IF lo = hi THEN ObjectStringsStep(arrayContent, lo, st)
  ELSE LET left == ObjectStringsLoop(arrayContent, lo, (lo + hi) \div 2, st) IN
         IF left.stop THEN left
         ELSE ObjectStringsLoop(arrayContent, (lo + hi) \div 2 + 1, hi, left)

\* objectStrings.push(arrayContent.substring(startIndex))
ObjectStringsAfter(arrayContent, st) ==
  Append(st.objectStrings, SubSeq(arrayContent, st.startIndex + 1, Len(arrayContent)))

\* objectStrings after the loop and the push of what follows the last cut.
ObjectStrings(arrayContent) ==
  ObjectStringsAfter(arrayContent,
                     ObjectStringsLoop(arrayContent, 1, Len(arrayContent),
                                       [objectStrings |-> <<>>, balance |-> 0,
                                        startIndex |-> 0, stop |-> FALSE]))

RECURSIVE ProcessedObjects(_, _)

\* The text of one object string before the texts of the ones after it.
ProcessedBefore(text, rest) == [ok |-> rest.ok, texts |-> <<text>> \o rest.texts]

\* The callback of objectStrings.map(...) for the trimmed object string i.
ProcessedObject(objectStrings, i, trimmedObjStr) ==
  IF StartsWith(trimmedObjStr, <<"{">>) /\ EndsWith(trimmedObjStr, <<"}">>)
    THEN ProcessedBefore(ParseObjectString(SubSeq(trimmedObjStr, 2, Len(trimmedObjStr) - 1)),
                         ProcessedObjects(objectStrings, i + 1))
    ELSE [ok |-> FALSE, texts |-> <<>>]

\* objectStrings.map(...): [ok, texts]; ok is FALSE where the callback
\* throws "Invalid object format in hasitem array".
ProcessedObjects(objectStrings, i) ==
  IF i > Len(objectStrings) THEN [ok |-> TRUE, texts |-> <<>>]
  ELSE ProcessedObject(objectStrings, i, Trim(objectStrings[i]))

\* JSON.parse(`[${processedObjects.join(",")}]`)
ParsedObjectTexts(po) ==
  IF ~po.ok THEN ItemsThrown
  ELSE ParsedItemsOf(JsonParse(<<"[">> \o Join(po.texts, <<",">>) \o <<"]">>), TRUE)

\* parsedItems for a value "[" arrayContent "]".
ParsedArrayContent(arrayContent) ==
  IF Trim(arrayContent) = <<>> THEN ParsedItems(<<>>)
  ELSE ParsedObjectTexts(ProcessedObjects(ObjectStrings(arrayContent), 1))

\* parsedItems for a value "{" objectContent "}".
ParsedObjectContent(objectContent) ==
  IF Trim(objectContent) = <<>> THEN ParsedItems(<<[t |-> "obj", m |-> <<>>]>>)
  ELSE ParsedItemsOf(JsonParse(ParseObjectString(objectContent)), FALSE)

\* parsedItems of src/unnamed/part_000.
ParsedItemsP0(valueToParse) ==
  IF StartsWith(valueToParse, <<"[">>)
    THEN IF ~EndsWith(valueToParse, <<"]">>) THEN ItemsThrown
         ELSE ParsedArrayContent(SubSeq(valueToParse, 2, Len(valueToParse) - 1))
  ELSE IF StartsWith(valueToParse, <<"{">>)
    THEN IF ~EndsWith(valueToParse, <<"}">>) THEN ItemsThrown
         ELSE ParsedObjectContent(SubSeq(valueToParse, 2, Len(valueToParse) - 1))
  ELSE ItemsSkipped

\* The try block of case "hasitem" in src/unnamed/part_000: [items, exc],
\* exc when an exception leaves the block.
HasItemTryP0(valueToParse, items) ==
  PushParsedItems("P0", ParsedItemsP0(valueToParse), items)

\* What the code would be without the try / catch around the block.
NoTryCatch(r) == r

\* try { ... } catch (e) { console.warn(...) }: nothing leaves the block.
TryCatch(r) == [items |-> r.items, exc |-> FALSE]

---------------------------------------------------------------------------
(* The argument tokenizer: the first loop of _parseArguments.              *)

\* The body of the loop with the bracket depth forgotten (what the code
\* would be without inSquareBrackets).
TokenizeStepBracesOnly(st, char) ==
  LET cur == Append(st.currentArg, char) IN
    IF char = "{" THEN [st EXCEPT !.currentArg = cur, !.inBraces = @ + 1]
    ELSE IF char = "}" THEN [st EXCEPT !.currentArg = cur, !.inBraces = @ - 1]
    ELSE IF char = "," /\ st.inBraces = 0
      THEN [st EXCEPT !.args = Append(@, Trim(SubSeq(cur, 1, Len(cur) - 1))),
                      !.currentArg = <<>>]
    ELSE [st EXCEPT !.currentArg = cur]

\* The body of the first loop of _parseArguments for one character.
TokenizeStep(st, char) ==
  LET cur == Append(st.currentArg, char) IN
    IF char = "{" THEN [st EXCEPT !.currentArg = cur, !.inBraces = @ + 1]
    ELSE IF char = "}" THEN [st EXCEPT !.currentArg = cur, !.inBraces = @ - 1]
    ELSE IF char = "[" THEN [st EXCEPT !.currentArg = cur, !.inSquareBrackets = @ + 1]
    ELSE IF char = "]" THEN [st EXCEPT !.currentArg = cur, !.inSquareBrackets = @ - 1]
    ELSE IF char = "," /\ st.inBraces = 0 /\ st.inSquareBrackets = 0
      THEN [st EXCEPT !.args = Append(@, Trim(SubSeq(cur, 1, Len(cur) - 1))),
                      !.currentArg = <<>>]
    ELSE [st EXCEPT !.currentArg = cur]

\* for (let i = 0; i < argsString.length; i++), the range halved so that the
\* evaluation nests no deeper than the logarithm of its length.
RECURSIVE TokenizeLoop(_, _, _, _)
TokenizeLoop(s, lo, hi, st) ==
  IF lo > hi THEN st
  ELSE IF lo = hi THEN TokenizeStep(st, s[lo])
  ELSE LET left == TokenizeLoop(s, lo, (lo + hi) \div 2, st) IN
         IF left.stop THEN left ELSE TokenizeLoop(s, (lo + hi) \div 2 + 1, hi, left)

\* args.push(currentArg.trim())
ArgsAfter(st) == Append(st.args, Trim(st.currentArg))

\* The local `args` after the first loop of _parseArguments(argsString) and
\* the push of the last token.
TokenizeArguments(s) ==
  ArgsAfter(TokenizeLoop(s, 1, Len(s),
                         [args |-> <<>>, currentArg |-> <<>>, inBraces |-> 0,
                          inSquareBrackets |-> 0, stop |-> FALSE]))

\* The tokens the second loop interprets: `if (!arg) continue`.
InterpretedArgs(tokens) == SelectSeq(tokens, LAMBDA a : a # <<>>)

---------------------------------------------------------------------------
(* The Query: queryOptions.  A list that the code leaves undefined until   *)
(* its first push is the empty sequence here (the code never holds an      *)
(* empty list, except scoreOptions, which it reads by its length).         *)

EmptyQuery ==
  [type |-> <<>>, excludeTypes |-> <<>>, name |-> <<>>,
   tags |-> <<>>, excludeTags |-> <<>>, families |-> <<>>, excludeFamilies |-> <<>>,
   gameMode |-> <<>>, maxLevel |-> <<>>, minLevel |-> <<>>,
   location |-> <<>>, volume |-> <<>>, maxDistance |-> <<>>, minDistance |-> <<>>,
   closest |-> <<>>, farthest |-> <<>>,
   maxVerticalRotation |-> <<>>, minVerticalRotation |-> <<>>,
   maxHorizontalRotation |-> <<>>, minHorizontalRotation |-> <<>>,
   scoreOptions |-> <<>>]

Variants == {"ESP", "P0"}

W_type == <<"t", "y", "p", "e">>
W_name == <<"n", "a", "m", "e">>
W_tag == <<"t", "a", "g">>
W_family == <<"f", "a", "m", "i", "l", "y">>
W_m == <<"m">>
W_l == <<"l">>
W_lm == <<"l", "m">>
W_x == <<"x">>
W_y == <<"y">>
W_z == <<"z">>
W_dx == <<"d", "x">>
W_dy == <<"d", "y">>
W_dz == <<"d", "z">>
W_r == <<"r">>
W_rm == <<"r", "m">>
W_c == <<"c">>
W_rx == <<"r", "x">>
W_rxm == <<"r", "x", "m">>
W_ry == <<"r", "y">>
W_rym == <<"r", "y", "m">>
W_scores == <<"s", "c", "o", "r", "e", "s">>
W_hasitem == <<"h", "a", "s", "i", "t", "e", "m">>

\* The coordinate of a Vector3 that the key x, y or z names.
SetAxis(v, axis, n) ==
  IF axis = "x" THEN [v EXCEPT !.x = n]
  ELSE IF axis = "y" THEN [v EXCEPT !.y = n]
  ELSE [v EXCEPT !.z = n]

\* case "type" that lets a negated value overwrite the positive type.
CaseTypeOverwriting(q, trimmedValue) ==
  IF StartsWith(trimmedValue, <<"!">>)
    THEN [q EXCEPT !.excludeTypes = Append(@, SubstringFrom(trimmedValue, 1)),
                   !.type = <<>>]
    ELSE [q EXCEPT !.type = <<trimmedValue>>]

\* case "type"
CaseType(q, trimmedValue) ==
  IF StartsWith(trimmedValue, <<"!">>)
    THEN [q EXCEPT !.excludeTypes = Append(@, SubstringFrom(trimmedValue, 1))]
    ELSE [q EXCEPT !.type = <<trimmedValue>>]

\* case "tag" that keeps only the last required tag.
CaseTagOverwriting(q, trimmedValue) ==
  IF StartsWith(trimmedValue, <<"!">>)
    THEN [q EXCEPT !.excludeTags = Append(@, SubstringFrom(trimmedValue, 1))]
    ELSE [q EXCEPT !.tags = <<trimmedValue>>]

\* case "tag"
CaseTag(q, trimmedValue) ==
  IF StartsWith(trimmedValue, <<"!">>)
    THEN [q EXCEPT !.excludeTags = Append(@, SubstringFrom(trimmedValue, 1))]
    ELSE [q EXCEPT !.tags = Append(@, trimmedValue)]

\* case "family"
CaseFamily(q, trimmedValue) ==
  IF StartsWith(trimmedValue, <<"!">>)
    THEN [q EXCEPT !.excludeFamilies = Append(@, SubstringFrom(trimmedValue, 1))]
    ELSE [q EXCEPT !.families = Append(@, trimmedValue)]

\* case "x" / "y" / "z" with an origin that starts from zero on every axis.
CaseXYZFromZero(q, axis, trimmedValue, execLoc) ==
  LET base == IF q.location # <<>> THEN q.location[1]
              ELSE [x |-> 0, y |-> 0, z |-> 0]
  IN  [q EXCEPT !.location = <<SetAxis(base, axis, ParseFloat(trimmedValue))>>]

\* case "x" / "y" / "z": the origin starts from the execution location (or
\* zero) and the named axis is overwritten.
CaseXYZ(q, axis, trimmedValue, execLoc) ==
  LET base == IF q.location # <<>> THEN q.location[1]
              ELSE IF execLoc # <<>> THEN execLoc[1]
              ELSE [x |-> 0, y |-> 0, z |-> 0]
  IN  [q EXCEPT !.location = <<SetAxis(base, axis, ParseFloat(trimmedValue))>>]

\* case "dx" / "dy" / "dz"
CaseDXYZ(q, axis, trimmedValue) ==
  LET base == IF q.volume # <<>> THEN q.volume[1] ELSE [x |-> 0, y |-> 0, z |-> 0]
  IN  [q EXCEPT !.volume = <<SetAxis(base, axis, ParseFloat(trimmedValue))>>]

\* case "c" once `count` is parsed
CaseCount(q, count) ==
  IF IsNaN(count) THEN q
  ELSE IF count > 0 THEN [q EXCEPT !.closest = <<count>>]
  ELSE IF count < 0 THEN [q EXCEPT !.farthest = <<0 - count>>]
  ELSE q

\* case "c"
CaseC(q, trimmedValue) == CaseCount(q, ParseInt(trimmedValue))

\* `if (minScore !== undefined || maxScore !== undefined) scoreOptions.push(...)`
PushScoreOption(scoreOptions, objName, range) ==
  IF range.min # <<>> \/ range.max # <<>>
    THEN Append(scoreOptions,
                [objective |-> Trim(objName), minScore |-> range.min, maxScore |-> range.max])
    ELSE scoreOptions

\* The body of the loop over scoreArgs for scoreArg.split("=").
ScoreArg(scoreOptions, parts) ==
  IF parts[1] # <<>> /\ Len(parts) >= 2 /\ parts[2] # <<>>
    THEN PushScoreOption(scoreOptions, parts[1], ParseRange(Trim(parts[2])))
    ELSE scoreOptions

\* The loop over scoreArgs of case "scores".
RECURSIVE ScoreArgsLoop(_, _, _)
ScoreArgsLoop(scoreArgs, i, scoreOptions) ==
  IF i > Len(scoreArgs) THEN scoreOptions
  ELSE ScoreArgsLoop(scoreArgs, i + 1, ScoreArg(scoreOptions, Split(scoreArgs[i], "=")))

\* case "scores"
CaseScores(q, trimmedValue) ==
  IF StartsWith(trimmedValue, <<"{">>) /\ EndsWith(trimmedValue, <<"}">>)
    THEN [q EXCEPT !.scoreOptions =
            ScoreArgsLoop(Split(SubSeq(trimmedValue, 2, Len(trimmedValue) - 1), ","), 1, @)]
    ELSE q

\* case "hasitem": the try block of the running variant inside its catch.
CaseHasItem(vr, trimmedValue, items) ==
  TryCatch(IF vr = "ESP" THEN HasItemTryESP(trimmedValue, items)
           ELSE HasItemTryP0(trimmedValue, items))

\* The keys of the switch that set one field of the Query.
QueryCase(vr, q, trimmedKey, trimmedValue, execLoc) ==
  CASE trimmedKey = W_type   -> CaseType(q, trimmedValue)
    [] trimmedKey = W_name   -> [q EXCEPT !.name = <<trimmedValue>>]
    [] trimmedKey = W_tag    -> CaseTag(q, trimmedValue)
    [] trimmedKey = W_family -> CaseFamily(q, trimmedValue)
    [] trimmedKey = W_m      -> [q EXCEPT !.gameMode = <<trimmedValue>>]
    [] trimmedKey = W_l      -> [q EXCEPT !.maxLevel = <<ParseInt(trimmedValue)>>]
    [] trimmedKey = W_lm     -> [q EXCEPT !.minLevel = <<ParseInt(trimmedValue)>>]
    [] trimmedKey = W_x      -> CaseXYZ(q, "x", trimmedValue, execLoc)
    [] trimmedKey = W_y      -> CaseXYZ(q, "y", trimmedValue, execLoc)
    [] trimmedKey = W_z      -> CaseXYZ(q, "z", trimmedValue, execLoc)
    [] trimmedKey = W_dx     -> CaseDXYZ(q, "x", trimmedValue)
    [] trimmedKey = W_dy     -> CaseDXYZ(q, "y", trimmedValue)
    [] trimmedKey = W_dz     -> CaseDXYZ(q, "z", trimmedValue)
    [] trimmedKey = W_r      -> [q EXCEPT !.maxDistance = <<ParseInt(trimmedValue)>>]
    [] trimmedKey = W_rm     -> [q EXCEPT !.minDistance = <<ParseInt(trimmedValue)>>]
    [] trimmedKey = W_c      -> CaseC(q, trimmedValue)
    [] trimmedKey = W_rx /\ vr = "P0"
         -> [q EXCEPT !.maxVerticalRotation = <<ParseFloat(trimmedValue)>>]
    [] trimmedKey = W_rxm /\ vr = "P0"
         -> [q EXCEPT !.minVerticalRotation = <<ParseFloat(trimmedValue)>>]
    [] trimmedKey = W_ry /\ vr = "P0"
         -> [q EXCEPT !.maxHorizontalRotation = <<ParseFloat(trimmedValue)>>]
    [] trimmedKey = W_rym /\ vr = "P0"
         -> [q EXCEPT !.minHorizontalRotation = <<ParseFloat(trimmedValue)>>]
    [] trimmedKey = W_scores -> CaseScores(q, trimmedValue)
    [] OTHER -> q          \* hasitem (not a Query field) and default: a warning

\* `const [key, ...valueParts] = arg.split("=")`, `key.trim()`
ArgKey(arg) == Split(arg, "=")[1]
TrimmedKey(arg) == Trim(ArgKey(arg))

\* `valueParts.join("=").trim()` with one pair of outer quotes removed
TrimmedValue(arg) == StripQuotes(Trim(Join(Tail(Split(arg, "=")), <<"=">>)))

\* The state after case "hasitem" has returned r.
AfterHasItem(st, r) == [q |-> st.q, items |-> r.items, thrown |-> r.exc]

\* switch (trimmedKey)
InterpretPair(vr, st, trimmedKey, trimmedValue, execLoc) ==
  IF trimmedKey = W_hasitem
    THEN AfterHasItem(st, CaseHasItem(vr, trimmedValue, st.items))
    ELSE [q |-> QueryCase(vr, st.q, trimmedKey, trimmedValue, execLoc),
          items |-> st.items, thrown |-> FALSE]

\* One turn of `for (const arg of args)` for a token that is not empty.  The
\* state st is [q, items, thrown].
InterpretArg(vr, st, arg, execLoc) ==
  IF ArgKey(arg) = <<>> THEN st   \* `if (!key || value === undefined) continue`
  ELSE InterpretPair(vr, st, TrimmedKey(arg), TrimmedValue(arg), execLoc)

\* The second loop of _parseArguments; an exception ends it.
RECURSIVE InterpretLoop(_, _, _, _, _)
InterpretLoop(vr, st, tokens, i, execLoc) ==
  IF i > Len(tokens) \/ st.thrown THEN st
  ELSE InterpretLoop(vr, InterpretArg(vr, st, tokens[i], execLoc), tokens, i + 1, execLoc)

\* _parseArguments(argsString) on a fresh parser.
ParseArguments(vr, s, execLoc) ==
  InterpretLoop(vr, [q |-> EmptyQuery, items |-> <<>>, thrown |-> FALSE],
                InterpretedArgs(TokenizeArguments(s)), 1, execLoc)

SelectorSymbols == {"p", "a", "r", "s", "e"}

\* selectorString.match(/^(@[parse])(?:\[(.*?)\])?$/): [matched, symbol,
\* args], args <<>> when the group did not take part, else <<text>>.
SelectorMatch(s) ==
  IF Len(s) >= 2 /\ s[1] = "@" /\ s[2] \in SelectorSymbols
    THEN IF Len(s) = 2
           THEN [matched |-> TRUE, symbol |-> SubSeq(s, 1, 2), args |-> <<>>]
         ELSE IF Len(s) >= 4 /\ s[3] = "[" /\ s[Len(s)] = "]"
           THEN [matched |-> TRUE, symbol |-> SubSeq(s, 1, 2),
                 args |-> <<SubSeq(s, 4, Len(s) - 1)>>]
         ELSE [matched |-> FALSE, symbol |-> <<>>, args |-> <<>>]
    ELSE [matched |-> FALSE, symbol |-> <<>>, args |-> <<>>]

\* A match of [args] that is not anchored at the start of the string.
ArgsOnlyMatchUnanchored(s) ==
  IF Len(s) >= 2 /\ Includes(s, "[") /\ s[Len(s)] = "]"
    THEN [matched |-> TRUE,
          args |-> <<SubSeq(s, 1 + (CHOOSE k \in 1..Len(s) :
                                      s[k] = "[" /\ \A j \in 1..(k - 1) : s[j] # "["),
                            Len(s) - 1)>>]
    ELSE [matched |-> FALSE, args |-> <<>>]

\* selectorString.match(/^\[(.*?)\]$/)
ArgsOnlyMatch(s) ==
  IF Len(s) >= 2 /\ s[1] = "[" /\ s[Len(s)] = "]"
    THEN [matched |-> TRUE, args |-> <<SubSeq(s, 2, Len(s) - 1)>>]
    ELSE [matched |-> FALSE, args |-> <<>>]

SymbolAll == <<"@", "e">>

NotParsed == [q |-> EmptyQuery, items |-> <<>>, thrown |-> FALSE]

\* The argsString _parseSelectorString() hands to _parseArguments, <<>> when
\* it does not call it.
ArgsStringOf(s) ==
  LET sm == SelectorMatch(s) IN
    IF ~sm.matched
      THEN LET am == ArgsOnlyMatch(s) IN
             IF Includes(s, "[") /\ am.matched THEN am.args[1] ELSE <<>>
      ELSE IF sm.args # <<>> THEN sm.args[1] ELSE <<>>

\* targetSelectorSymbol after _parseSelectorString(): "@e" stays when the
\* selector does not match.
SymbolOf(sm) == IF sm.matched THEN sm.symbol ELSE SymbolAll

\* `if (argsString) this._parseArguments(argsString)`
ParseIfGiven(vr, s, execLoc) ==
  IF s # <<>> THEN ParseArguments(vr, s, execLoc) ELSE NotParsed

ParsedSelector(symbol, st) ==
  [symbol |-> symbol, q |-> st.q, items |-> st.items, thrown |-> st.thrown]

\* _parseSelectorString(): [symbol, q, items, thrown]
ParseSelectorString(vr, s, execLoc) ==
  ParsedSelector(SymbolOf(SelectorMatch(s)), ParseIfGiven(vr, ArgsStringOf(s), execLoc))

---------------------------------------------------------------------------
(* The host: entities, their components, the scoreboard.                   *)
(*                                                                         *)
(* world is [pool, objectives]: pool is the sequence of the entities of    *)
(* the dimension in the host's iteration order, an entity is known by its  *)
(* index in it; objectives is the set of the scoreboard's objective names. *)
(* An entity is a record                                                   *)
(*   isPlayer, typeId, nameTag, tags, families, gameMode, level,           *)
(*   location [x, y, z], rotation [x, y],                                  *)
(*   identity   whether it has a scoreboardIdentity,                       *)
(*   scores     the set of <<objective, score>> it holds,                  *)
(*   inventory  <<>> or <<the slots of its container>>, a slot being <<>>  *)
(*              or <<stack>>,                                              *)
(*   equipment  <<>> or <<a function from EquipmentSlot to a slot>>.       *)
(* A stack is [typeId, tags, amount, durability], durability <<>> or       *)
(* <<damage>>.                                                             *)

L_inventory == <<"s", "l", "o", "t", ".", "i", "n", "v", "e", "n", "t", "o", "r", "y">>
L_hotbar == <<"s", "l", "o", "t", ".", "h", "o", "t", "b", "a", "r">>
L_head == <<"s", "l", "o", "t", ".", "a", "r", "m", "o", "r", ".", "h", "e", "a", "d">>
L_chest == <<"s", "l", "o", "t", ".", "a", "r", "m", "o", "r", ".", "c", "h", "e", "s", "t">>
L_legs == <<"s", "l", "o", "t", ".", "a", "r", "m", "o", "r", ".", "l", "e", "g", "s">>
L_feet == <<"s", "l", "o", "t", ".", "a", "r", "m", "o", "r", ".", "f", "e", "e", "t">>
L_mainhand == <<"s", "l", "o", "t", ".", "w", "e", "a", "p", "o", "n", ".", "m", "a", "i", "n", "h", "a", "n", "d">>
L_offhand == <<"s", "l", "o", "t", ".", "w", "e", "a", "p", "o", "n", ".", "o", "f", "f", "h", "a", "n", "d">>
L_equippable == <<"s", "l", "o", "t", ".", "e", "q", "u", "i", "p", "p", "a", "b", "l", "e", ".">>
L_armor == <<"s", "l", "o", "t", ".", "a", "r", "m", "o", "r", ".">>
L_weapon == <<"s", "l", "o", "t", ".", "w", "e", "a", "p", "o", "n", ".">>
P_minecraft == <<"m", "i", "n", "e", "c", "r", "a", "f", "t", ":">>
T_player == <<"m", "i", "n", "e", "c", "r", "a", "f", "t", ":", "p", "l", "a", "y", "e", "r">>

\* Object.values(EquipmentSlot), in the order of the enumeration.
EquipmentSlots == <<"Head", "Chest", "Legs", "Feet", "Mainhand", "Offhand", "Body">>

\* slotKey.toLowerCase() for the slot the switch does not name.
EquipmentSlotLower(slotKey) == <<"b", "o", "d", "y">>

\* The switch (slotKey) of _checkSingleEntityHasItem.
EquipmentSlotType(slotKey) ==
  CASE slotKey = "Head"     -> L_head
    [] slotKey = "Chest"    -> L_chest
    [] slotKey = "Legs"     -> L_legs
    [] slotKey = "Feet"     -> L_feet
    [] slotKey = "Mainhand" -> L_mainhand
    [] slotKey = "Offhand"  -> L_offhand
    [] OTHER                -> L_equippable \o EquipmentSlotLower(slotKey)

\* The index of the last hotbar slot of a player's container.
LastHotbarIndex == 8

\* slotsToSearch: [itemStack, slotType, slotIndex] for every container slot,
\* then for every equipment slot.
InventorySlots(e) ==
  IF e.inventory = <<>> THEN <<>>
  ELSE [k \in 1..Len(e.inventory[1]) |->
          [itemStack |-> e.inventory[1][k],
           slotType  |-> IF e.isPlayer /\ k - 1 >= 0 /\ k - 1 <= LastHotbarIndex
                           THEN L_hotbar ELSE L_inventory,
           slotIndex |-> k - 1]]

EquipmentSearchSlots(e) ==
  IF e.equipment = <<>> THEN <<>>
  ELSE [k \in 1..Len(EquipmentSlots) |->
          [itemStack |-> e.equipment[1][EquipmentSlots[k]],
           slotType  |-> EquipmentSlotType(EquipmentSlots[k]),
           slotIndex |-> 0 - 1]]

SlotsToSearch(e) == InventorySlots(e) \o EquipmentSearchSlots(e)

\* JavaScript truthiness of an optional string: defined and not empty.
Truthy(optStr) == optStr # <<>> /\ optStr[1] # <<>>

\* slotIndex within the slot range, an absent bound being no bound.
InSlotRange(slot, slotIndex) ==
  /\ slot.min = <<>> \/ slotIndex >= slot.min[1]
  /\ slot.max = <<>> \/ slotIndex <= slot.max[1]

\* The body of the loop over slotsToSearch in src/EntitySelectorParser.ts,
\* for a slot that holds a stack: TRUE where it reaches `return true`.
SlotMatchesESP(filter, st, slotType, slotIndex) ==
  LET item == filter.item
      itemOk ==
        ~(Truthy(item) /\ st.typeId # item[1] /\ item[1] \notin st.tags)
      quantityOk ==
        \/ filter.quantity = <<>>
        \/ /\ filter.quantity[1].min = <<>> \/ ~(st.amount < filter.quantity[1].min[1])
           /\ filter.quantity[1].max = <<>> \/ ~(st.amount > filter.quantity[1].max[1])
      dataOk ==
        \/ filter.data = <<>>
        \/ filter.data[1] = 0 - 1
        \/ IF st.durability # <<>>
             THEN /\ ~(filter.data[1] = 0 /\ st.durability[1] # 0)
                  /\ ~(JsGt(filter.data[1], 0) /\ st.durability[1] # filter.data[1])
             ELSE filter.data[1] = 0
      hasSlot == filter.slot # <<>>
      \* the three-way test on sMin / sMax; with neither bound it sets nothing
      rangeOk ==
        /\ filter.slot[1].min # <<>> \/ filter.slot[1].max # <<>>
        /\ InSlotRange(filter.slot[1], slotIndex)
      exact ==
        /\ filter.location[1] = slotType
        /\ \/ hasSlot /\ slotIndex # 0 - 1 /\ rangeOk
           \/ hasSlot /\ slotIndex = 0 - 1
           \/ ~hasSlot
      inInventory ==
        filter.location[1] = L_inventory /\ slotType \in {L_hotbar, L_inventory}
      locationAndSlotMatch ==
        IF Truthy(filter.location)
          THEN IF inInventory
                 THEN ~(hasSlot /\ slotIndex # 0 - 1)
                      \/ InSlotRange(filter.slot[1], slotIndex)
                 ELSE exact
        ELSE IF hasSlot /\ slotIndex # 0 - 1 THEN rangeOk
        ELSE ~Truthy(filter.location) /\ ~hasSlot
  IN  itemOk /\ quantityOk /\ dataOk /\ locationAndSlotMatch

\* The body of the loop over slotsToSearch in src/unnamed/part_000.
SlotMatchesP0(filter, st, slotType, slotIndex) ==
  LET item == filter.item
      itemMatch ==
        IF Truthy(item)
          THEN IF StartsWith(item[1], P_minecraft) THEN st.typeId = item[1]
               ELSE item[1] \in st.tags
          ELSE TRUE
      quantityMatch ==
        \/ filter.quantity = <<>>
        \/ /\ filter.quantity[1].min = <<>> \/ st.amount >= filter.quantity[1].min[1]
           /\ filter.quantity[1].max = <<>> \/ st.amount <= filter.quantity[1].max[1]
      \* `!filter.data || filter.data === -1`, then the durability test
      dataMatch ==
        \/ filter.data = <<>> \/ filter.data[1] = 0 \/ IsNaN(filter.data[1])
        \/ filter.data[1] = 0 - 1
        \/ IF st.durability # <<>> THEN filter.data[1] = st.durability[1]
           ELSE filter.data[1] = 0
      hasSlot == filter.slot # <<>>
      matchesLocation ==
        \/ filter.location[1] = slotType
        \/ filter.location[1] = L_inventory /\ slotType \in {L_hotbar, L_inventory}
      locationAndSlotMatch ==
        IF Truthy(filter.location)
          THEN /\ matchesLocation
               /\ \/ hasSlot /\ slotIndex # 0 - 1 /\ InSlotRange(filter.slot[1], slotIndex)
                  \/ /\ hasSlot /\ slotIndex = 0 - 1
                     /\ (StartsWith(slotType, L_armor) \/ StartsWith(slotType, L_weapon))
                  \/ ~hasSlot
        ELSE IF hasSlot /\ slotIndex # 0 - 1 THEN InSlotRange(filter.slot[1], slotIndex)
        ELSE ~Truthy(filter.location) /\ ~hasSlot
  IN  itemMatch /\ quantityMatch /\ dataMatch /\ locationAndSlotMatch

SlotMatches(vr, filter, slot) ==
  /\ slot.itemStack # <<>>                            \* `if (!itemStack) continue`
  /\ IF vr = "ESP"
       THEN SlotMatchesESP(filter, slot.itemStack[1], slot.slotType, slot.slotIndex)
       ELSE SlotMatchesP0(filter, slot.itemStack[1], slot.slotType, slot.slotIndex)

\* The loop `for (const {...} of slotsToSearch)`: TRUE at the first slot that
\* reaches `return true`, FALSE after the last one.
RECURSIVE SearchSlots(_, _, _, _)
SearchSlots(vr, filter, slots, i) ==
  IF i > Len(slots) THEN FALSE
  ELSE IF SlotMatches(vr, filter, slots[i]) THEN TRUE
  ELSE SearchSlots(vr, filter, slots, i + 1)

\* _checkSingleEntityHasItem(entity, filter)
CheckSingleEntityHasItem(vr, e, filter) == SearchSlots(vr, filter, SlotsToSearch(e), 1)

\* hasItemFilters.some(...) in place of every(...).
RECURSIVE SomeFilterHolds(_, _, _, _)
SomeFilterHolds(vr, e, filters, i) ==
  IF i > Len(filters) THEN FALSE
  ELSE IF CheckSingleEntityHasItem(vr, e, filters[i]) THEN TRUE
  ELSE SomeFilterHolds(vr, e, filters, i + 1)

\* this.hasItemFilters.every((filter) => this._checkSingleEntityHasItem(e, filter))
RECURSIVE EveryFilterHolds(_, _, _, _)
EveryFilterHolds(vr, e, filters, i) ==
  IF i > Len(filters) THEN TRUE
  ELSE IF ~CheckSingleEntityHasItem(vr, e, filters[i]) THEN FALSE
  ELSE EveryFilterHolds(vr, e, filters, i + 1)

---------------------------------------------------------------------------
(* Geometry and the scoreboard.                                            *)

Min2(a, b) == IF a <= b THEN a ELSE b
Max2(a, b) == IF a >= b THEN a ELSE b

\* One axis of the volume test: [min, effectiveMax) with a closed upper end.
AxisWithinClosed(p, base, delta) ==
  LET lo == Min2(base, base + delta)
      hi == Max2(base, base + delta)
      effectiveMax == IF delta = 0 THEN lo + 1 ELSE hi
  IN  ~IsNaN(base) /\ ~IsNaN(delta) /\ p >= lo /\ p <= effectiveMax

\* One axis of the volume test: min <= p < effectiveMax, where effectiveMax
\* is min + 1 on an axis of extent 0.  A NaN origin or extent compares false.
AxisWithin(p, base, delta) ==
  LET lo == Min2(base, base + delta)
      hi == Max2(base, base + delta)
      effectiveMax == IF delta = 0 THEN lo + 1 ELSE hi
  IN  ~IsNaN(base) /\ ~IsNaN(delta) /\ p >= lo /\ p < effectiveMax

\* _isWithinVolume(entityLocation, volumeBaseLocation, volumeDelta), and the
\* callback of _filterByVolume, which computes the same.
IsWithinVolume(el, location, volume) ==
  /\ AxisWithin(el.x, location.x, volume.x)
  /\ AxisWithin(el.y, location.y, volume.y)
  /\ AxisWithin(el.z, location.z, volume.z)

\* _calculateDistanceSquared(a, b); NaN when a coordinate is NaN.
CalculateDistanceSquared(a, b) ==
  IF IsNaN(b.x) \/ IsNaN(b.y) \/ IsNaN(b.z) THEN NaN
  ELSE (a.x - b.x) * (a.x - b.x) + (a.y - b.y) * (a.y - b.y) + (a.z - b.z) * (a.z - b.z)

JsSquare(n) == IF IsNaN(n) THEN NaN ELSE n * n

\* objective.getScore(identity): <<>> when the entity holds no score there.
GetScore(e, objective) ==
  IF \E p \in e.scores : p[1] = objective
    THEN <<(CHOOSE p \in e.scores : p[1] = objective)[2]>>
    ELSE <<>>

\* The body of the loop of _matchesScoreFilters for one filter.
ScoreFilterHolds(w, e, filter) ==
  /\ filter.objective \in w.objectives
  /\ GetScore(e, filter.objective) # <<>>
  /\ filter.minScore = <<>> \/ ~(GetScore(e, filter.objective)[1] < filter.minScore[1])
  /\ filter.maxScore = <<>> \/ ~(GetScore(e, filter.objective)[1] > filter.maxScore[1])

\* _matchesScoreFilters(entity, scoreFilters)
MatchesScoreFilters(w, e, scoreFilters) ==
  /\ e.identity
  /\ \A i \in 1..Len(scoreFilters) : ScoreFilterHolds(w, e, scoreFilters[i])

SeqToSet(q) == {q[i] : i \in 1..Len(q)}

\* The tests on type, name, tags and families that _matchesManualFilters and
\* _checkExecutorMatchesBaseQuery share.
MatchesIdentityFilters(e, options) ==
  /\ ~(Truthy(options.type) /\ e.typeId # options.type[1])
  /\ e.typeId \notin SeqToSet(options.excludeTypes)
  /\ ~(Truthy(options.name) /\ e.nameTag # options.name[1])
  /\ \A t \in SeqToSet(options.tags) : t \in e.tags
  /\ \A t \in SeqToSet(options.excludeTags) : t \notin e.tags
  /\ \A f \in SeqToSet(options.families) : f \in e.families
  /\ \A f \in SeqToSet(options.excludeFamilies) : f \notin e.families

\* The distance test at the end of both.
MatchesDistance(e, options) ==
  options.location = <<>> \/
    LET distSq == CalculateDistanceSquared(e.location, options.location[1]) IN
      /\ options.minDistance = <<>> \/ ~JsLt(distSq, JsSquare(options.minDistance[1]))
      /\ options.maxDistance = <<>> \/ ~JsGt(distSq, JsSquare(options.maxDistance[1]))

\* _matchesManualFilters(entity, options) of src/EntitySelectorParser.ts
MatchesManualFilters(w, e, options) ==
  /\ MatchesIdentityFilters(e, options)
  /\ ~(Truthy(options.gameMode) /\ e.isPlayer /\ e.gameMode # options.gameMode[1])
  /\ e.isPlayer =>
       /\ options.minLevel = <<>> \/ ~JsLt(e.level, options.minLevel[1])
       /\ options.maxLevel = <<>> \/ ~JsGt(e.level, options.maxLevel[1])
  /\ options.scoreOptions = <<>> \/ MatchesScoreFilters(w, e, options.scoreOptions)
  /\ MatchesDistance(e, options)

\* _checkExecutorMatchesBaseQuery(entity, options) of src/unnamed/part_000
CheckExecutorMatchesBaseQuery(e, options) ==
  /\ MatchesIdentityFilters(e, options)
  /\ e.isPlayer =>
       /\ ~(Truthy(options.gameMode) /\ e.gameMode # options.gameMode[1])
       /\ options.minLevel = <<>> \/ ~JsLt(e.level, options.minLevel[1])
       /\ options.maxLevel = <<>> \/ ~JsGt(e.level, options.maxLevel[1])
  /\ options.minHorizontalRotation = <<>>
       \/ ~JsLt(e.rotation.y, options.minHorizontalRotation[1])
  /\ options.maxHorizontalRotation = <<>>
       \/ ~JsGt(e.rotation.y, options.maxHorizontalRotation[1])
  /\ options.minVerticalRotation = <<>>
       \/ ~JsLt(e.rotation.x, options.minVerticalRotation[1])
  /\ options.maxVerticalRotation = <<>>
       \/ ~JsGt(e.rotation.x, options.maxVerticalRotation[1])
  /\ MatchesDistance(e, options)

---------------------------------------------------------------------------
(* Dimension.getEntities(options) of the host (@minecraft/server), which   *)
(* the repository calls and does not hold: modelled from section 6 of the  *)
(* specification (queryPool) as a host that evaluates every option it is   *)
(* given.                                                                  *)

\* The entity at index id passes every filter option of query.
HostMatches(w, id, query) ==
  LET e == w.pool[id] IN
    /\ query.type = <<>> \/ e.typeId = query.type[1]
    /\ e.typeId \notin SeqToSet(query.excludeTypes)
    /\ query.name = <<>> \/ e.nameTag = query.name[1]
    /\ \A t \in SeqToSet(query.tags) : t \in e.tags
    /\ \A t \in SeqToSet(query.excludeTags) : t \notin e.tags
    /\ \A f \in SeqToSet(query.families) : f \in e.families
    /\ \A f \in SeqToSet(query.excludeFamilies) : f \notin e.families
    /\ query.gameMode = <<>> \/ (e.isPlayer /\ e.gameMode = query.gameMode[1])
    /\ query.minLevel = <<>> \/ (e.isPlayer /\ JsGe(e.level, query.minLevel[1]))
    /\ query.maxLevel = <<>> \/ (e.isPlayer /\ JsLe(e.level, query.maxLevel[1]))
    /\ query.minHorizontalRotation = <<>> \/ JsGe(e.rotation.y, query.minHorizontalRotation[1])
    /\ query.maxHorizontalRotation = <<>> \/ JsLe(e.rotation.y, query.maxHorizontalRotation[1])
    /\ query.minVerticalRotation = <<>> \/ JsGe(e.rotation.x, query.minVerticalRotation[1])
    /\ query.maxVerticalRotation = <<>> \/ JsLe(e.rotation.x, query.maxVerticalRotation[1])
    /\ query.scoreOptions = <<>> \/ MatchesScoreFilters(w, e, query.scoreOptions)
    /\ query.location = <<>> \/
         LET distSq == CalculateDistanceSquared(e.location, query.location[1]) IN
           /\ query.minDistance = <<>> \/ JsGe(distSq, JsSquare(query.minDistance[1]))
           /\ query.maxDistance = <<>> \/ JsLe(distSq, JsSquare(query.maxDistance[1]))
           /\ query.volume = <<>> \/ IsWithinVolume(e.location, query.location[1], query.volume[1])

\* The members of ids by ascending key, ties by ascending id (a stable sort
\* of the pool order).
RECURSIVE SortIds(_, _)
SortIds(ids, key) ==
  IF ids = {} THEN <<>>
  ELSE LET first == CHOOSE a \in ids : \A b \in ids \ {a} :
                      key[a] < key[b] \/ (key[a] = key[b] /\ a < b)
       IN  <<first>> \o SortIds(ids \ {first}, key)

FirstN(q, n) == SubSeq(q, 1, Min2(n, Len(q)))

\* The sequences of k distinct members of the set S.
Arrangements(S, k) ==
  {f \in [1..k -> S] : \A i, j \in 1..k : i # j => f[i] # f[j]}

\* The possible results of Dimension.getEntities(query): the matching
\* entities in pool order; with closest (farthest) the N nearest to (farthest
\* from) query.location, nearest (farthest) first, ties in pool order.  The
\* host's order for closest or farthest with no location is not known: any
\* N of the matching entities, in any order.
HostGetEntities(w, query) ==
  LET matching == {id \in 1..Len(w.pool) : HostMatches(w, id, query)}
      d(id)    == CalculateDistanceSquared(w.pool[id].location, query.location[1])
      \* a NaN distance compares false with everything: the pool order stays
      nearer   == [id \in matching |-> IF IsNaN(d(id)) THEN 0 ELSE d(id)]
      farther  == [id \in matching |-> IF IsNaN(d(id)) THEN 0 ELSE 0 - d(id)]
      inOrder  == [id \in matching |-> 0]
  IN  IF query.closest # <<>>
        THEN IF query.location # <<>>
               THEN {FirstN(SortIds(matching, nearer), query.closest[1])}
               ELSE Arrangements(matching, Min2(query.closest[1], Cardinality(matching)))
      ELSE IF query.farthest # <<>>
        THEN IF query.location # <<>>
               THEN {FirstN(SortIds(matching, farther), query.farthest[1])}
               ELSE Arrangements(matching, Min2(query.farthest[1], Cardinality(matching)))
      ELSE {SortIds(matching, inOrder)}

---------------------------------------------------------------------------
(* getEntities().  Entities are named by their index in world.pool.  The   *)
(* result is a set of outcomes, one per draw of Math.random and per answer *)
(* the host may give: [entities, hostQuery, retrieved, beforeItems,        *)
(* afterItems], the last four being the query handed to the host (if any), *)
(* its answer, and the list before and after the hasitem filter.           *)

Outcome(result, hostQuery, retrieved, beforeItems, afterItems) ==
  [entities |-> result, hostQuery |-> hostQuery, retrieved |-> retrieved,
   beforeItems |-> beforeItems, afterItems |-> afterItems]

\* entities.filter(e => hasItemFilters.every(f => _checkSingleEntityHasItem(e, f)))
\* under `if (this.hasItemFilters.length > 0)`
FilterByHasItem(vr, w, ids, items) ==
  IF Len(items) > 0
    THEN SelectSeq(ids, LAMBDA id : EveryFilterHolds(vr, w.pool[id], items, 1))
    ELSE ids

\* _filterByVolume(entities, location, volume)
FilterByVolume(w, ids, location, volume) ==
  SelectSeq(ids, LAMBDA id : IsWithinVolume(w.pool[id].location, location, volume))

\* entities.filter(e => _matchesScoreFilters(e, scoreOptions)) under
\* `if (scoreOptions && scoreOptions.length > 0)`
FilterByScores(w, ids, scoreOptions) ==
  IF Len(scoreOptions) > 0
    THEN SelectSeq(ids, LAMBDA id : MatchesScoreFilters(w, w.pool[id], scoreOptions))
    ELSE ids

\* The loop that splices `count` random members out of a list: every
\* sequence of Min(count, length) distinct members can come out.
RandomSample(ids, count) ==
  {[i \in 1..Min2(count, Len(ids)) |-> ids[f[i]]] :
     f \in Arrangements(1..Len(ids), Min2(count, Len(ids)))}

\* The tail of getEntities of src/EntitySelectorParser.ts: the volume filter
\* and the hasitem filter.
TailESP(w, q, items, hostQuery, retrieved, selected) ==
  LET inVolume == IF q.volume # <<>> /\ q.location # <<>>
                    THEN FilterByVolume(w, selected, q.location[1], q.volume[1])
                    ELSE selected
      kept == FilterByHasItem("ESP", w, inVolume, items)
  IN  Outcome(kept, hostQuery, retrieved, inVolume, kept)

\* getEntities() of src/EntitySelectorParser.ts
GetEntitiesESP(symbol, q, items, execLoc, exec, w) ==
  LET baseQuery == [q EXCEPT !.scoreOptions = <<>>]
      playerQuery == [baseQuery EXCEPT !.type = <<T_player>>]
  IN
  CASE symbol = <<"@", "s">> ->
         {TailESP(w, q, items, <<>>, <<>>,
                  IF exec # <<>> /\ MatchesManualFilters(w, w.pool[exec[1]], q)
                    THEN exec ELSE <<>>)}
    [] symbol = <<"@", "p">> ->
         LET hq == [playerQuery EXCEPT
                      !.location = IF execLoc # <<>> THEN execLoc ELSE @,
                      !.closest = IF q.closest # <<>> THEN q.closest ELSE <<1>>]
         IN  {TailESP(w, q, items, <<hq>>, got, got) : got \in HostGetEntities(w, hq)}
    [] symbol = <<"@", "a">> ->
         {TailESP(w, q, items, <<playerQuery>>, got, got) :
            got \in HostGetEntities(w, playerQuery)}
    [] symbol = <<"@", "r">> ->
         LET hq == IF Truthy(baseQuery.type) THEN baseQuery ELSE playerQuery
             count == IF q.closest # <<>> THEN q.closest[1] ELSE 1
         IN  UNION {{TailESP(w, q, items, <<hq>>, got, picked) :
                       picked \in RandomSample(FilterByScores(w, got, q.scoreOptions), count)} :
                    got \in HostGetEntities(w, hq)}
    [] OTHER ->
         {TailESP(w, q, items, <<baseQuery>>, got, FilterByScores(w, got, q.scoreOptions)) :
            got \in HostGetEntities(w, baseQuery)}

\* The "@s" branch answering from the pool, the executor left aside.
GetEntitiesSelfP0FromPool(q, items, exec, w) ==
  Outcome([i \in 1..Len(w.pool) |-> i], <<q>>, [i \in 1..Len(w.pool) |-> i],
          [i \in 1..Len(w.pool) |-> i], [i \in 1..Len(w.pool) |-> i])

\* The branch `if (this.targetSelectorSymbol === "@s")` of getEntities of
\* src/unnamed/part_000.
GetEntitiesSelfP0(q, items, exec, w) ==
  LET queryForS == [q EXCEPT !.location = <<>>, !.volume = <<>>,
                             !.maxDistance = <<>>, !.minDistance = <<>>,
                             !.closest = <<>>, !.farthest = <<>>]
  IN  IF exec # <<>> /\ CheckExecutorMatchesBaseQuery(w.pool[exec[1]], queryForS)
        THEN LET kept == FilterByHasItem("P0", w, exec, items)
                 inVolume ==
                   IF q.volume # <<>> /\ q.location # <<>>
                        /\ ~IsWithinVolume(w.pool[exec[1]].location, q.location[1], q.volume[1])
                     THEN <<>> ELSE kept
             IN  Outcome(inVolume, <<>>, <<>>, exec, kept)
        ELSE Outcome(<<>>, <<>>, <<>>, <<>>, <<>>)

\* The "location の自動設定" block of getEntities of src/unnamed/part_000.
LocationDefault(q, execLoc) ==
  IF /\ q.location = <<>>
     /\ \/ q.minDistance # <<>> \/ q.maxDistance # <<>>
        \/ q.closest # <<>> \/ q.farthest # <<>> \/ q.volume # <<>>
        \/ q.minHorizontalRotation # <<>> \/ q.maxHorizontalRotation # <<>>
        \/ q.minVerticalRotation # <<>> \/ q.maxVerticalRotation # <<>>
     /\ execLoc # <<>>
    THEN [q EXCEPT !.location = execLoc]
    ELSE q

\* The query getEntities of src/unnamed/part_000 hands to the host.
CurrentQueryP0(symbol, q, execLoc) ==
  LET currentQuery == LocationDefault(q, execLoc) IN
  CASE symbol = <<"@", "p">> ->
         [currentQuery EXCEPT !.type = <<T_player>>,
                              !.closest = IF q.closest # <<>> THEN q.closest ELSE <<1>>]
    [] symbol = <<"@", "a">> -> [currentQuery EXCEPT !.type = <<T_player>>]
    [] symbol = <<"@", "r">> ->
         [currentQuery EXCEPT
            !.type = IF ~Truthy(@) /\ currentQuery.families = <<>>
                          /\ currentQuery.tags = <<>> /\ ~Truthy(currentQuery.name)
                       THEN <<T_player>> ELSE @,
            !.closest = <<>>, !.farthest = <<>>]
    [] OTHER -> currentQuery

\* getEntities() of src/unnamed/part_000
GetEntitiesP0(symbol, q, items, execLoc, exec, w) ==
  IF symbol = <<"@", "s">> THEN {GetEntitiesSelfP0(q, items, exec, w)}
  ELSE
    LET hq == CurrentQueryP0(symbol, q, execLoc)
        countArg == IF q.closest # <<>> THEN q.closest[1]
                    ELSE IF q.farthest # <<>> THEN q.farthest[1] ELSE 1
        count == Max2(1, IF countArg < 0 THEN 0 - countArg ELSE countArg)
    IN  UNION {
          LET kept == FilterByHasItem("P0", w, got, items) IN
            IF symbol = <<"@", "r">> /\ Len(kept) > 0
              THEN {Outcome(picked, <<hq>>, got, got, kept) :
                      picked \in RandomSample(kept, count)}
              ELSE {Outcome(kept, <<hq>>, got, got, kept)}
          : got \in HostGetEntities(w, hq)}

GetEntitiesOutcomes(vr, symbol, q, items, execLoc, exec, w) ==
  IF vr = "ESP" THEN GetEntitiesESP(symbol, q, items, execLoc, exec, w)
  ELSE GetEntitiesP0(symbol, q, items, execLoc, exec, w)

---------------------------------------------------------------------------
(* The operations of class EntitySelector.                                 *)

EmptyWorld == [pool |-> <<>>, objectives |-> {}]

Origin == [x |-> 0, y |-> 0, z |-> 0]

\* No message formatter runs.
NoFormatter ==
  /\ parser = "none"
  /\ rawInput = <<>>
  /\ pieces = <<>>
  /\ returned = <<>>
  /\ escaped = FALSE

\* The state before `new EntitySelector(selectorString, dimension,
\* executionLocation, executor)`: the arguments are chosen, nothing has run.
\* executionLocation holds the argument until the constructor runs.
BeforeConstruct ==
  /\ pc = "new"
  /\ targetSelectorSymbol = <<>>
  /\ queryOptions = EmptyQuery
  /\ hasItemFilters = <<>>
  /\ thrown = FALSE
  /\ argsString = <<>>
  /\ args = <<>>
  /\ entities = <<>>
  /\ trace = <<>>
  /\ calls = 0
  /\ NoFormatter

\* `executionLocation || executor?.location`
LocationOrExecutor(location, exec, w) ==
  IF location # <<>> THEN location
  ELSE IF exec # <<>> THEN <<w.pool[exec[1]].location>>
  ELSE <<>>

\* The local `args` of _parseArguments, <<>> when it is not called.
ArgsIfGiven(s) == IF s # <<>> THEN TokenizeArguments(s) ELSE <<>>

\* constructor(selectorString, executionDimension, executionLocation?, executor?)
Construct ==
  /\ pc = "new"
  /\ executionLocation' = LocationOrExecutor(executionLocation, executor, world)
  /\ \E r \in {ParseSelectorString(variant, selectorString,
                                    LocationOrExecutor(executionLocation, executor, world))} :
       /\ targetSelectorSymbol' = r.symbol
       /\ queryOptions' = r.q
       /\ hasItemFilters' = r.items
       /\ thrown' = r.thrown
  /\ argsString' = ArgsStringOf(selectorString)
  /\ args' = ArgsIfGiven(ArgsStringOf(selectorString))
  /\ pc' = "parsed"
  /\ UNCHANGED <<variant, selectorString, executor, world, entities, trace, calls>>
  /\ UNCHANGED formatterVars

\* The objects getEntities() works on are held by reference; the heap maps
\* the name of an object to its fields.  `const currentQuery =
\* this.queryOptions`: the local name for the stored object itself.
SameObject(heap) == [heap |-> heap, ref |-> "this.queryOptions"]

\* `{ ...this.queryOptions }`: a new object with the fields of the stored
\* one, and the reference to it.
SpreadCopy(heap) ==
  [heap |-> [o \in {"this.queryOptions", "currentQuery"} |-> heap["this.queryOptions"]],
   ref  |-> "currentQuery"]

\* The local query object at the end of a call: the query handed to the
\* host, or, when the host is not asked, the copy as it was made
\* (src/EntitySelectorParser.ts deletes its scoreOptions first).
LocalQuery(vr, q, hostQuery) ==
  IF hostQuery # <<>> THEN hostQuery[1]
  ELSE IF vr = "ESP" THEN [q EXCEPT !.scoreOptions = <<>>]
  ELSE q

\* this.queryOptions after a call: every assignment and every delete of
\* getEntities() goes through the local reference.
QueryOptionsAfter(vr, q, hostQuery) ==
  LET local == SpreadCopy([o \in {"this.queryOptions"} |-> q]) IN
    [local.heap EXCEPT ![local.ref] = LocalQuery(vr, q, hostQuery)]["this.queryOptions"]

\* getEntities(): it may be called again on the same EntitySelector.
GetEntities ==
  /\ pc \in {"parsed", "done"}
  /\ ~thrown
  /\ calls < MaxCalls
  /\ \E r \in GetEntitiesOutcomes(variant, targetSelectorSymbol, queryOptions,
                                  hasItemFilters, executionLocation, executor, world) :
       /\ entities' = r.entities
       /\ trace' = <<r>>
       /\ queryOptions' = QueryOptionsAfter(variant, queryOptions, r.hostQuery)
  /\ calls' = calls + 1
  /\ pc' = "done"
  /\ UNCHANGED <<variant, selectorString, executionLocation, executor,
                 targetSelectorSymbol, hasItemFilters, thrown,
                 argsString, args, world>>
  /\ UNCHANGED formatterVars

---------------------------------------------------------------------------
(* Specification of the constructor: selectors composed of a symbol and of *)
(* up to MaxArgs arguments, well formed and not.                           *)

A_typeA == <<"t","y","p","e","=","a">>
A_typeNotB == <<"t","y","p","e","=","!","b">>
A_typeC == <<" ","t","y","p","e"," ","="," ","c"," ">>
A_typeNotD == <<"t","y","p","e","=","!","d">>
A_tagX == <<"t","a","g","=","x">>
A_dx == <<"d","x","=","2">>
A_scores == <<"s","c","o","r","e","s","=","{","s","=","1",".",".","2","}">>
A_bareKey == <<"t","a","g">>
A_noKey == <<"=","x">>
A_unknown == <<"f","o","o","=","1">>
A_itemGood == <<"h","a","s","i","t","e","m","=","{","i","t","e","m","=","a","}">>
A_itemOpenBracket == <<"h","a","s","i","t","e","m","=","[","{","i","t","e","m","=","a","}">>
A_itemOpenBrace == <<"h","a","s","i","t","e","m","=","{","i","t","e","m","=","a">>
A_itemExtraBrace == <<"h","a","s","i","t","e","m","=","{","i","t","e","m","=","a","}","}">>
A_itemExtraBracket == <<"h","a","s","i","t","e","m","=","[","{","i","t","e","m","=","a","}","]","]">>

ArgPool == {A_typeA, A_typeNotB, A_typeC, A_typeNotD,
             A_tagX, A_dx, A_scores, A_bareKey,
             A_noKey, A_unknown, A_itemGood, A_itemOpenBracket, A_itemOpenBrace, A_itemExtraBrace, A_itemExtraBracket}

\* What is written before the bracket: a symbol, nothing, or no symbol at all.
HeadPool == {<<"@", "e">>, <<"@", "a">>, <<>>, <<"@", "x">>}

\* head[arg,arg,...], or the head alone when there is no argument.
Compose(head, arguments) ==
  IF arguments = <<>> THEN head
  ELSE head \o <<"[">> \o Join(arguments, <<",">>) \o <<"]">>

InitParse ==
  /\ BeforeConstruct
  /\ variant \in Variants
  /\ \E head \in HeadPool, arguments \in Str(ArgPool, MaxArgs) :
       selectorString = Compose(head, arguments)
  /\ executionLocation = <<Origin>>
  /\ executor = <<>>
  /\ world = EmptyWorld

NextParse == Construct

SpecParse == InitParse /\ [][NextParse]_vars

---------------------------------------------------------------------------
(* Specification of the range grammar: one selector whose scores value,    *)
(* item quantity or item slot is a text of up to MaxRangeLen pieces.       *)

\* The pieces a text is made of; the two dots of a range are one piece.
RangePieces == {<<"1">>, <<"5">>, <<"-">>, <<".", ".">>, <<"x">>}

RangeTexts == {Join(t, <<>>) : t \in Str(RangePieces, MaxRangeLen)} \ {<<>>}

RangeContexts == {"scores", "quantity", "slot"}

R_scoresHead == <<"@","e","[","s","c","o","r","e","s","=","{","s","=">>
R_quantityHead == <<"@","e","[","h","a","s","i","t","e","m","=","{","i","t","e","m","=","a",",","q","u","a","n","t","i","t","y","=">>
R_slotHead == <<"@","e","[","h","a","s","i","t","e","m","=","{","i","t","e","m","=","a",",","s","l","o","t","=">>
R_tail == <<"}","]">>

RangeHead(context) ==
  CASE context = "scores"   -> R_scoresHead
    [] context = "quantity" -> R_quantityHead
    [] context = "slot"     -> R_slotHead

RangeSelector(context, text) == RangeHead(context) \o text \o R_tail

InitRange ==
  /\ BeforeConstruct
  /\ variant \in Variants
  /\ \E context \in RangeContexts, text \in RangeTexts :
       /\ selectorString = RangeSelector(context, text)
       /\ context # "scores" => variant = "P0"
  /\ executionLocation = <<Origin>>
  /\ executor = <<>>
  /\ world = EmptyWorld

NextRange == Construct

SpecRange == InitRange /\ [][NextRange]_vars

---------------------------------------------------------------------------
(* Entities of the worlds the specifications below run in.                 *)

T_pig == <<"m","i","n","e","c","r","a","f","t",":","p","i","g">>
F_player == <<"p","l","a","y","e","r">>
G_survival == <<"s","u","r","v","i","v","a","l">>

\* A player standing at the origin with no name tag, no tag, no score, no
\* inventory component and no equipment component.
BasePlayer ==
  [isPlayer |-> TRUE, typeId |-> T_player, nameTag |-> <<>>, tags |-> {},
   families |-> {F_player}, gameMode |-> G_survival, level |-> 0,
   location |-> Origin, rotation |-> [x |-> 0, y |-> 0],
   identity |-> TRUE, scores |-> {}, inventory |-> <<>>, equipment |-> <<>>]

\* The same for an entity that is not a player.
BaseMob == [BasePlayer EXCEPT !.isPlayer = FALSE, !.typeId = T_pig, !.families = {}]

---------------------------------------------------------------------------
(* Specification of volume containment: @s[x=,y=,z=,dx=,dy=,dz=] run by an *)
(* executor standing at a position of a small grid.                        *)

V_head == <<"@","s","[","x","=">>
V_y == <<",","y","=">>
V_z == <<",","z","=">>
V_dx == <<",","d","x","=">>
V_dy == <<",","d","y","=">>
V_dz == <<",","d","z","=">>

VolumeSelector(o, d) ==
  V_head \o IntToStr(o.x) \o V_y \o IntToStr(o.y) \o V_z \o IntToStr(o.z)
    \o V_dx \o IntToStr(d.x) \o V_dy \o IntToStr(d.y) \o V_dz \o IntToStr(d.z)
    \o <<"]">>

VolumeOrigins == {Origin, [x |-> 1, y |-> 0, z |-> 0 - 1]}

VolumeExtents ==
  [x : {0, 1}, y : {0, 1}, z : (0 - MaxExtent)..MaxExtent]

VolumePositions ==
  [x : 0..2, y : 0..1, z : (0 - MaxExtent - 1)..(MaxExtent + 1)]

InitVolume ==
  /\ BeforeConstruct
  /\ variant \in Variants
  /\ \E o \in VolumeOrigins, d \in VolumeExtents :
       selectorString = VolumeSelector(o, d)
  /\ executionLocation = <<>>
  /\ executor = <<1>>
  /\ \E p \in VolumePositions :
       world = [pool |-> <<[BasePlayer EXCEPT !.location = p]>>, objectives |-> {}]

NextVolume == Construct \/ GetEntities

SpecVolume == InitVolume /\ [][NextVolume]_vars

---------------------------------------------------------------------------
(* Specification of score filtering: <symbol>[scores={level=5..10}] over   *)
(* players with and without a scoreboard identity, a level objective and   *)
(* a score for it.                                                         *)

O_level == <<"l","e","v","e","l">>
S_scoresLevel == <<"[","s","c","o","r","e","s","=","{","l","e","v","e","l","=","5",".",".","1","0","}","]">>

\* Scores around the two ends of the range 5..10.
ScoreValues == {4, 5, 10, 11}

\* A player with no scoreboard identity, one with an identity and no score,
\* and one per score value.
Scorers(objectives) ==
  {[BasePlayer EXCEPT !.identity = FALSE], BasePlayer}
    \cup {[BasePlayer EXCEPT !.scores = {<<O_level, v>>}] :
            v \in IF O_level \in objectives THEN ScoreValues ELSE {}}

InitScores ==
  /\ BeforeConstruct
  /\ variant \in Variants
  /\ \E c \in SelectorSymbols : selectorString = <<"@", c>> \o S_scoresLevel
  /\ executionLocation = <<>>
  /\ executor = <<1>>
  /\ \E objectives \in {{}, {O_level}} :
       \E pool \in [1..MaxScorers -> Scorers(objectives)] :
         world = [pool |-> pool, objectives |-> objectives]

NextScores == Construct \/ GetEntities

SpecScores == InitScores /\ [][NextScores]_vars

---------------------------------------------------------------------------
(* Specification of hasitem filtering: selectors with item conditions over *)
(* a player whose container and main hand vary, next to an entity with no  *)
(* inventory and no equipment.                                             *)

I_torch == <<"m","i","n","e","c","r","a","f","t",":","t","o","r","c","h">>
I_diamond == <<"m","i","n","e","c","r","a","f","t",":","d","i","a","m","o","n","d">>
G_torch == <<"t","o","r","c","h">>
G_diamond == <<"d","i","a","m","o","n","d">>

Stack(typeId, tag, amount) ==
  [typeId |-> typeId, tags |-> {tag}, amount |-> amount, durability |-> <<>>]

\* What one slot may hold: nothing, one torch, two torches, three diamonds.
SlotContents ==
  {<<>>, <<Stack(I_torch, G_torch, 1)>>, <<Stack(I_torch, G_torch, 2)>>,
   <<Stack(I_diamond, G_diamond, 3)>>}

EmptyEquipment == [k \in {EquipmentSlots[i] : i \in 1..Len(EquipmentSlots)} |-> <<>>]

EquipmentChoices ==
  {<<>>, <<EmptyEquipment>>,
   <<[EmptyEquipment EXCEPT !["Mainhand"] = <<Stack(I_torch, G_torch, 1)>>]>>}

H_torchHotbar == <<"@","e","[","h","a","s","i","t","e","m","=","[","{","i","t","e","m","=","m","i","n","e","c","r","a","f","t",":","t","o","r","c","h",",","q","u","a","n","t","i","t","y","=","1",",","l","o","c","a","t","i","o","n","=","\"","s","l","o","t",".","h","o","t","b","a","r","\"",",","s","l","o","t","=","1","}","]","]">>
H_usageExample == <<"@","a","[","h","a","s","i","t","e","m","=","[","{","i","t","e","m","=","m","i","n","e","c","r","a","f","t",":","t","o","r","c","h",",","q","u","a","n","t","i","t","y","=","1",",","l","o","c","a","t","i","o","n","=","\"","s","l","o","t",".","h","o","t","b","a","r","\"",",","s","l","o","t","=","1","}",",","{","i","t","e","m","=","m","i","n","e","c","r","a","f","t",":","d","i","a","m","o","n","d",",","q","u","a","n","t","i","t","y","=","3",".",".","}","]","]">>
H_twoTags == <<"@","e","[","h","a","s","i","t","e","m","=","[","{","i","t","e","m","=","t","o","r","c","h","}",",","{","i","t","e","m","=","d","i","a","m","o","n","d","}","]","]">>
H_twoTagsJson == <<"@","e","[","h","a","s","i","t","e","m","=","[","{","\"","i","t","e","m","\"",":","\"","t","o","r","c","h","\"","}",",","{","\"","i","t","e","m","\"",":","\"","d","i","a","m","o","n","d","\"","}","]","]">>
H_mainhand == <<"@","e","[","h","a","s","i","t","e","m","=","{","i","t","e","m","=","m","i","n","e","c","r","a","f","t",":","t","o","r","c","h",",","l","o","c","a","t","i","o","n","=","s","l","o","t",".","w","e","a","p","o","n",".","m","a","i","n","h","a","n","d","}","]">>
H_none == <<"@","e">>

ItemSelectors ==
  {H_torchHotbar, H_usageExample, H_twoTags, H_twoTagsJson, H_mainhand, H_none}

InitItems ==
  /\ BeforeConstruct
  /\ variant \in Variants
  /\ selectorString \in ItemSelectors
  /\ executionLocation = <<Origin>>
  /\ executor = <<>>
  /\ \E inventory \in {<<>>} \cup {<<c>> : c \in [1..InventorySize -> SlotContents]},
        equipment \in EquipmentChoices :
       world = [pool |-> <<[BasePlayer EXCEPT !.inventory = inventory,
                                              !.equipment = equipment],
                           BaseMob>>,
                objectives |-> {}]

NextItems == Construct \/ GetEntities

SpecItems == InitItems /\ [][NextItems]_vars

---------------------------------------------------------------------------
(* Specification of @p: no c argument, with and without x/y/z, entities    *)
(* along the x axis.                                                       *)

N_nearest == <<"@","p">>
N_x == <<"@","p","[","x","=">>
N_xyz == <<",","y","=","0",",","z","=","0","]">>

NearestSelectors ==
  {N_nearest}
    \cup {N_x \o IntToStr(k) \o <<"]">> : k \in 0..MaxCoord}
    \cup {N_x \o IntToStr(k) \o N_xyz : k \in 0..MaxCoord}

OnAxis(e, k) == [e EXCEPT !.location = [x |-> k, y |-> 0, z |-> 0]]

InitNearest ==
  /\ BeforeConstruct
  /\ variant \in Variants
  /\ selectorString \in NearestSelectors
  /\ executionLocation \in {<<>>, <<Origin>>, <<[x |-> MaxCoord, y |-> 0, z |-> 0]>>}
  /\ executor = <<>>
  /\ \E pool \in [1..MaxNearby -> {OnAxis(e, k) : e \in {BasePlayer, BaseMob}, k \in 0..MaxCoord}] :
       world = [pool |-> pool, objectives |-> {}]

NextNearest == Construct \/ GetEntities

SpecNearest == InitNearest /\ [][NextNearest]_vars

---------------------------------------------------------------------------
(* Specification of the tokenizer alone.                                   *)

TokAlphabet == {"a", ",", "{", "}", "[", "]", " "}

Idle ==
  /\ variant = "P0"
  /\ selectorString = <<>>
  /\ executionLocation = <<>>
  /\ executor = <<>>
  /\ targetSelectorSymbol = <<>>
  /\ queryOptions = <<>>
  /\ hasItemFilters = <<>>
  /\ thrown = FALSE
  /\ world = EmptyWorld
  /\ entities = <<>>
  /\ trace = <<>>
  /\ calls = 0
  /\ NoFormatter

InitTok ==
  /\ pc = "tok_in"
  /\ argsString \in Str(TokAlphabet, MaxTokLen)
  /\ args = <<>>
  /\ Idle

Tokenize ==
  /\ pc = "tok_in"
  /\ pc' = "tok_out"
  /\ args' = TokenizeArguments(argsString)
  /\ UNCHANGED <<variant, selectorString, executionLocation, executor,
                 targetSelectorSymbol, queryOptions, hasItemFilters, thrown,
                 argsString, world, entities, trace, calls>>
  /\ UNCHANGED formatterVars

NextTok == Tokenize

SpecTok == InitTok /\ [][NextTok]_vars

---------------------------------------------------------------------------
(* C2: the tokenizer splits at exactly the commas at brace depth 0 and     *)
(* bracket depth 0.                                                        *)

Count(s, c, n) == Cardinality({i \in 1..n : s[i] = c})

\* Depth before position i, counted from the text and not by the loop.
BraceDepthAt(s, i) == Count(s, "{", i - 1) - Count(s, "}", i - 1)
BracketDepthAt(s, i) == Count(s, "[", i - 1) - Count(s, "]", i - 1)

TopLevelCommas(s) ==
  {i \in 1..Len(s) : s[i] = "," /\ BraceDepthAt(s, i) = 0 /\ BracketDepthAt(s, i) = 0}

\* The k-th piece of s cut at the positions of `cuts`.
Piece(s, cuts, k) ==
  LET before == {c \in cuts : Cardinality({d \in cuts : d <= c}) = k - 1}
      after  == {c \in cuts : Cardinality({d \in cuts : d <= c}) = k}
      from   == IF before = {} THEN 1 ELSE (CHOOSE c \in before : TRUE) + 1
      to     == IF after = {} THEN Len(s) ELSE (CHOOSE c \in after : TRUE) - 1
  IN  SubSeq(s, from, to)

\* C2: the raw tokens are the trimmed pieces between the depth-zero commas,
\* one more than there are such commas, a comma inside {} or [] is never a
\* cut, and the interpreted tokens are the non-empty ones in order.
C2_TokenizerSplitsAtTopLevelCommas ==
  pc = "tok_out" =>
    LET cuts == TopLevelCommas(argsString) IN
      /\ Len(args) = Cardinality(cuts) + 1
      /\ \A k \in 1..Len(args) : args[k] = Trim(Piece(argsString, cuts, k))
      /\ \A k \in 1..Len(args) : args[k] = <<>> \/ (~IsWs(args[k][1]) /\ ~IsWs(args[k][Len(args[k])]))
      /\ \A k \in 1..Len(InterpretedArgs(args)) : InterpretedArgs(args)[k] # <<>>
      /\ Len(InterpretedArgs(args)) = Cardinality({k \in 1..Len(args) : args[k] # <<>>})

\* A comma inside brackets stayed inside its token, and an empty token was
\* dropped.
C2_Witness ==
  /\ pc = "tok_out"
  /\ argsString = <<"[", ",", "]", ",">>
  /\ args = << <<"[", ",", "]">>, <<>> >>
  /\ InterpretedArgs(args) = << <<"[", ",", "]">> >>


---------------------------------------------------------------------------
(* C1: constructing an EntitySelector is total: for every selector string, *)
(* well formed or not, the constructor returns with a symbol and a Query,  *)
(* and no exception leaves _parseSelectorString / _parseArguments, the     *)
(* hasitem sub-parser included.                                            *)

\* C1: after the constructor no exception has escaped, the symbol is one of
\* the five selector symbols, and there is a Query and a list of conditions.
C1_ParsingIsTotal ==
  pc = "parsed" =>
    /\ ~thrown
    /\ targetSelectorSymbol \in {<<"@", c>> : c \in SelectorSymbols}
    /\ DOMAIN queryOptions = DOMAIN EmptyQuery
    /\ DOMAIN hasItemFilters = 1..Len(hasItemFilters)

\* A hasitem value whose try block throws has been parsed: the constructor
\* returned, with the fallback symbol and no item condition.
C1_Witness ==
  /\ pc = "parsed"
  /\ variant = "P0"
  /\ selectorString = Compose(<<"@", "e">>, <<A_tagX, A_itemOpenBracket>>)
  /\ HasItemTryP0(TrimmedValue(A_itemOpenBracket), <<>>).exc
  /\ ~thrown
  /\ targetSelectorSymbol = <<"@", "e">>
  /\ queryOptions.tags = <<<<"x">>>>

---------------------------------------------------------------------------
(* C3: for a selector whose hasitem value is malformed by unbalanced       *)
(* brackets or braces, parsing leaves hasItemFilters empty, and every      *)
(* other argument of the selector, written before or after the hasitem     *)
(* argument, takes effect on the Query as it does without the hasitem      *)
(* argument.                                                               *)

\* The arguments as written between the brackets of a composed selector
\* (no argument of ArgPool holds a comma).
WrittenArgs(s) ==
  LET open == CHOOSE k \in 1..Len(s) : s[k] = "[" /\ \A j \in 1..(k - 1) : s[j] # "["
  IN  Split(SubSeq(s, open + 1, Len(s) - 1), ",")

Unbalanced(v) ==
  \/ Count(v, "[", Len(v)) # Count(v, "]", Len(v))
  \/ Count(v, "{", Len(v)) # Count(v, "}", Len(v))

IsHasItemArg(a) == TrimmedKey(a) = W_hasitem

\* C3: when every hasitem argument of the selector has an unbalanced value,
\* hasItemFilters is empty and the Query is the one the other arguments give.
C3_MalformedHasItemIsIsolated ==
  (pc = "parsed" /\ Includes(selectorString, "[")
     /\ (SelectorMatch(selectorString).matched \/ ArgsOnlyMatch(selectorString).matched)) =>
    LET written == WrittenArgs(selectorString)
        others  == SelectSeq(written, LAMBDA a : ~IsHasItemArg(a))
    IN  (/\ \E i \in 1..Len(written) : IsHasItemArg(written[i])
         /\ \A i \in 1..Len(written) :
              IsHasItemArg(written[i]) => Unbalanced(TrimmedValue(written[i]))) =>
          /\ hasItemFilters = <<>>
          /\ queryOptions =
               ParseArguments(variant, Join(others, <<",">>), executionLocation).q

---------------------------------------------------------------------------
(* C5: for any sequence of type= arguments of one selector, every value    *)
(* with a leading `!` is appended to excludeTypes (all kept, in order,     *)
(* without the `!`), and the positive type after parsing is the value of   *)
(* the last type= argument that is not negated; the negated and the        *)
(* positive occurrences do not affect each other.  The type= arguments of  *)
(* a selector are the tokens of its argument string whose key is type.     *)

TypeValues ==
  LET typeArgs == SelectSeq(InterpretedArgs(args),
                            LAMBDA a : ArgKey(a) # <<>> /\ TrimmedKey(a) = W_type)
  IN  [i \in 1..Len(typeArgs) |-> TrimmedValue(typeArgs[i])]

\* C5: excludeTypes is the negated type values in order, without the `!`, and
\* type is the last type value that is not negated (undefined when none is).
C5_TypeArgumentsAccumulate ==
  pc = "parsed" =>
    LET negated  == SelectSeq(TypeValues, LAMBDA v : StartsWith(v, <<"!">>))
        positive == SelectSeq(TypeValues, LAMBDA v : ~StartsWith(v, <<"!">>))
    IN  /\ queryOptions.excludeTypes = [i \in 1..Len(negated) |-> Tail(negated[i])]
        /\ queryOptions.type =
             IF positive = <<>> THEN <<>> ELSE <<positive[Len(positive)]>>

\* A positive type followed by a negated one: both are kept.
C5_Witness ==
  /\ pc = "parsed"
  /\ selectorString = Compose(<<"@", "e">>, <<A_typeA, A_typeNotB>>)
  /\ queryOptions.type = <<<<"a">>>>
  /\ queryOptions.excludeTypes = <<<<"b">>>>


---------------------------------------------------------------------------
(* C4: the range grammar shared by scores values, item quantity and item   *)
(* slot.                                                                   *)

\* The text of a selector of RangeSelector and the context it stands in.
RangeContextOf(s) ==
  CHOOSE context \in RangeContexts : StartsWith(s, RangeHead(context))

RangeTextOf(s) ==
  SubSeq(s, Len(RangeHead(RangeContextOf(s))) + 1, Len(s) - Len(R_tail))

\* The bounds the parsed selector carries for that text.
ObservedRange ==
  CASE RangeContextOf(selectorString) = "scores" ->
         IF queryOptions.scoreOptions = <<>> THEN NoRange
         ELSE [min |-> queryOptions.scoreOptions[1].minScore,
               max |-> queryOptions.scoreOptions[1].maxScore]
    [] RangeContextOf(selectorString) = "quantity" -> hasItemFilters[1].quantity[1]
    [] RangeContextOf(selectorString) = "slot" -> hasItemFilters[1].slot[1]

\* An optional minus sign and one or more digits, and nothing else.
IsInteger(t) ==
  /\ t # <<>>
  /\ \A i \in 1..Len(t) : IsDigit(t[i]) \/ (i = 1 /\ t[i] = "-")
  /\ \E i \in 1..Len(t) : IsDigit(t[i])

\* The range the grammar gives a text: "A..B", "..B", "A..", "N", or no
\* bound for any other text.
GrammarRange(t) ==
  IF \E k \in 1..(Len(t) - 1) :
       /\ t[k] = "." /\ t[k + 1] = "."
       /\ k = 1 \/ IsInteger(SubSeq(t, 1, k - 1))
       /\ k + 1 = Len(t) \/ IsInteger(SubSeq(t, k + 2, Len(t)))
    THEN LET k == CHOOSE k \in 1..(Len(t) - 1) :
                    /\ t[k] = "." /\ t[k + 1] = "."
                    /\ k = 1 \/ IsInteger(SubSeq(t, 1, k - 1))
                    /\ k + 1 = Len(t) \/ IsInteger(SubSeq(t, k + 2, Len(t)))
         IN  [min |-> IF k = 1 THEN <<>> ELSE <<ParseInt(SubSeq(t, 1, k - 1))>>,
              max |-> IF k + 1 = Len(t) THEN <<>> ELSE <<ParseInt(SubSeq(t, k + 2, Len(t)))>>]
  ELSE IF IsInteger(t) THEN [min |-> <<ParseInt(t)>>, max |-> <<ParseInt(t)>>]
  ELSE NoRange

\* C4: "A..B" gives {min A, max B}, "..B" gives {max B} and no min, "A.."
\* gives {min A} and no max, a bare integer N gives {min N, max N}, and any
\* other text (neither a range nor an integer) sets no bound at all.
C4_RangeGrammar ==
  pc = "parsed" => ObservedRange = GrammarRange(RangeTextOf(selectorString))


---------------------------------------------------------------------------
(* C9: volume containment.                                                 *)

\* The integer positions of one axis of the box: from the origin up to, and
\* without, origin + extent; one unit thick where the extent is 0.
AxisPositions(o, d) ==
  IF d = 0 THEN {o}
  ELSE IF d > 0 THEN o..(o + d - 1)
  ELSE (o + d)..(o - 1)

ExecutorPosition == world.pool[1].location

VolumeCase(o, d, p) ==
  /\ queryOptions.location = <<o>>
  /\ queryOptions.volume = <<d>>
  /\ ExecutorPosition = p

\* C9: a position is inside the volume iff on every axis min <= p < max,
\* where max = min + 1 on an axis of extent 0: with origin (0,0,0) and
\* volume (0,0,2), (0,0,0) is inside, (0,0,2) and (0,1,0) are outside.
C9_VolumeIsHalfOpen ==
  pc = "done" =>
    /\ entities \in {<<>>, <<1>>}
    /\ entities = <<1>> <=>
         /\ ExecutorPosition.x \in AxisPositions(queryOptions.location[1].x, queryOptions.volume[1].x)
         /\ ExecutorPosition.y \in AxisPositions(queryOptions.location[1].y, queryOptions.volume[1].y)
         /\ ExecutorPosition.z \in AxisPositions(queryOptions.location[1].z, queryOptions.volume[1].z)
    /\ VolumeCase(Origin, [x |-> 0, y |-> 0, z |-> 2], Origin) => entities = <<1>>
    /\ VolumeCase(Origin, [x |-> 0, y |-> 0, z |-> 2], [x |-> 0, y |-> 0, z |-> 2])
         => entities = <<>>
    /\ VolumeCase(Origin, [x |-> 0, y |-> 0, z |-> 2], [x |-> 0, y |-> 1, z |-> 0])
         => entities = <<>>

\* The position on the upper face of the volume (0,0,2) was left out.
C9_Witness ==
  /\ pc = "done"
  /\ VolumeCase(Origin, [x |-> 0, y |-> 0, z |-> 2], [x |-> 0, y |-> 0, z |-> 2])
  /\ entities = <<>>


---------------------------------------------------------------------------
(* C6: scores={level=5..10} under every selector symbol.                   *)

\* The entity has a scoreboard identity, the level objective exists, and
\* the entity's score for it lies in 5..10.
InLevelRange(e) ==
  /\ e.identity
  /\ O_level \in world.objectives
  /\ \E p \in e.scores : p[1] = O_level /\ p[2] >= 5 /\ p[2] <= 10

AtEndOfLevelRange(e) ==
  /\ e.identity
  /\ O_level \in world.objectives
  /\ \E p \in e.scores : p[1] = O_level /\ p[2] \in {5, 10}

\* C6: for a selector carrying scores={level=5..10}, under every symbol,
\* getEntities returns no entity without a scoreboard identity, none for
\* which the level objective is missing or holds no score, none whose score
\* is below 5 or above 10; and (@a, @e) it returns the players scoring
\* exactly 5 or exactly 10.
C6_ScoresFilterUnderEverySymbol ==
  pc = "done" =>
    /\ \A i \in 1..Len(entities) : InLevelRange(world.pool[entities[i]])
    /\ targetSelectorSymbol \in {<<"@", "a">>, <<"@", "e">>} =>
         \A id \in 1..Len(world.pool) :
           AtEndOfLevelRange(world.pool[id]) => id \in SeqToSet(entities)

---------------------------------------------------------------------------
(* C7: hasitem=[{item=minecraft:torch,quantity=1,location="slot.hotbar",   *)
(* slot=1}].                                                               *)

TorchCondition ==
  [item     |-> <<I_torch>>,
   quantity |-> <<[min |-> <<1>>, max |-> <<1>>]>>,
   data     |-> <<>>,
   location |-> <<L_hotbar>>,
   slot     |-> <<[min |-> <<1>>, max |-> <<1>>]>>]

\* The hotbar slot with index 1 (the second slot of a player's container)
\* holds exactly one torch.
HoldsOneTorchInHotbarOne(e) ==
  /\ e.isPlayer
  /\ e.inventory # <<>>
  /\ Len(e.inventory[1]) >= 2
  /\ e.inventory[1][2] # <<>>
  /\ e.inventory[1][2][1].typeId = I_torch
  /\ e.inventory[1][2][1].amount = 1

\* C7: the selector parses into exactly one item condition (item
\* minecraft:torch, quantity 1..1, location slot.hotbar, slot 1..1), and an
\* entity passes iff its hotbar slot with index 1 holds exactly one torch
\* (not with two torches there, not with the torch in another slot).
C7_TorchInHotbarSlotOne ==
  selectorString = H_torchHotbar =>
    /\ pc \in {"parsed", "done"} => hasItemFilters = <<TorchCondition>>
    /\ pc = "done" =>
         \A id \in 1..Len(world.pool) :
           id \in SeqToSet(entities) <=> HoldsOneTorchInHotbarOne(world.pool[id])

---------------------------------------------------------------------------
(* C8: hasitem filtering is conjunctive over the conditions and            *)
(* existential over the slots.                                             *)

\* Some inventory or equipment slot of the entity satisfies the condition.
SomeSlotSatisfies(e, filter) ==
  \E j \in 1..Len(SlotsToSearch(e)) : SlotMatches(variant, filter, SlotsToSearch(e)[j])

SatisfiesEveryCondition(e) ==
  \A k \in 1..Len(hasItemFilters) : SomeSlotSatisfies(e, hasItemFilters[k])

\* C8: an entity that reaches the hasitem filter is kept by getEntities iff
\* for every parsed item condition at least one of its inventory or
\* equipment slots satisfies that condition; an entity with no inventory
\* and no equipment fails any non-empty hasitem list.
C8_HasItemEveryConditionSomeSlot ==
  pc = "done" =>
    /\ entities = SelectSeq(trace[1].beforeItems,
                            LAMBDA id : SatisfiesEveryCondition(world.pool[id]))
    /\ \A id \in SeqToSet(trace[1].beforeItems) :
         (/\ world.pool[id].inventory = <<>>
          /\ world.pool[id].equipment = <<>>
          /\ hasItemFilters # <<>>) => id \notin SeqToSet(entities)

\* Two conditions; the player satisfies the first one only and is dropped.
C8_Witness ==
  /\ pc = "done"
  /\ Len(hasItemFilters) = 2
  /\ 1 \in SeqToSet(trace[1].beforeItems)
  /\ SomeSlotSatisfies(world.pool[1], hasItemFilters[1])
  /\ ~SomeSlotSatisfies(world.pool[1], hasItemFilters[2])
  /\ 1 \notin SeqToSet(entities)

---------------------------------------------------------------------------
(* C10: @p with no c argument.                                             *)

\* The origin of the query: the point x/y/z give when the selector has one,
\* the execution location otherwise.
QueryOrigin ==
  IF queryOptions.location # <<>> THEN queryOptions.location
  ELSE executionLocation

\* C10: @p with no c returns at most one entity, that entity is a player,
\* and no player is closer to the origin than it.
C10_NearestPlayerToOrigin ==
  (pc = "done" /\ targetSelectorSymbol = <<"@", "p">> /\ queryOptions.closest = <<>>) =>
    /\ Len(entities) <= 1
    /\ \A i \in 1..Len(entities) : world.pool[entities[i]].isPlayer
    /\ QueryOrigin # <<>> =>
         \A i \in 1..Len(entities), id \in 1..Len(world.pool) :
           world.pool[id].isPlayer =>
             CalculateDistanceSquared(world.pool[entities[i]].location, QueryOrigin[1])
               <= CalculateDistanceSquared(world.pool[id].location, QueryOrigin[1])

---------------------------------------------------------------------------
(* Specification of @r: c=N with and without an item condition, over a     *)
(* pool of players with and without a torch and of other entities.         *)

MaxCount == 2           \* largest N of @r[c=N]
MaxPool == 3            \* entities of a world of the @r specification

D_head == <<"@","r","[","c","=">>
D_torchTail == <<",","h","a","s","i","t","e","m","=","{","i","t","e","m","=","t","o","r","c","h","}","]">>

D_torchJsonTail == <<",","h","a","s","i","t","e","m","=","{","\"","i","t","e","m","\"",":","\"","t","o","r","c","h","\"","}","]">>

\* @r[c=N], and @r[c=N,hasitem=...] with the condition {item=torch} written
\* with `=` and written as JSON.
RandomSelectors ==
  {D_head \o IntToStr(n) \o tail :
     n \in 1..MaxCount, tail \in {<<"]">>, D_torchTail, D_torchJsonTail}}

TorchInventory == <<<<<<Stack(I_torch, G_torch, 1)>>>>>>

\* A player holding a torch, a player holding nothing, a pig holding a torch.
SampledEntities ==
  {[BasePlayer EXCEPT !.inventory = TorchInventory],
   BasePlayer,
   [BaseMob EXCEPT !.inventory = TorchInventory]}

InitRandom ==
  /\ BeforeConstruct
  /\ variant \in Variants
  /\ selectorString \in RandomSelectors
  /\ executionLocation = <<Origin>>
  /\ executor = <<>>
  /\ \E pool \in [1..MaxPool -> SampledEntities] :
       world = [pool |-> pool, objectives |-> {}]

NextRandom == Construct \/ GetEntities

SpecRandom == InitRandom /\ [][NextRandom]_vars

---------------------------------------------------------------------------
(* C11: @r[c=N] returns min(N, M) distinct members of the matching pool.   *)

\* The entities that match every filter of a selector of RandomSelectors:
\* players (the type @r takes when none is given) that satisfy every item
\* condition.
MatchingPool ==
  {id \in 1..Len(world.pool) :
     /\ world.pool[id].typeId = T_player
     /\ SatisfiesEveryCondition(world.pool[id])}

\* C11: for @r[c=N] with N > 0 over a pool in which M entities match all
\* filters, one evaluation returns exactly min(N, M) entities, pairwise
\* distinct, each of them a member of the matching pool.
C11_RandomSampleSize ==
  (pc = "done" /\ targetSelectorSymbol = <<"@", "r">> /\ queryOptions.closest # <<>>) =>
    /\ Len(entities) = Min2(queryOptions.closest[1], Cardinality(MatchingPool))
    /\ \A i, j \in 1..Len(entities) : i # j => entities[i] # entities[j]
    /\ \A i \in 1..Len(entities) : entities[i] \in MatchingPool

---------------------------------------------------------------------------
(* Specification of @s: up to MaxSelfArgs filters, run with no executor    *)
(* and with an executor of several kinds, next to a second entity.         *)

MaxSelfArgs == 2        \* most arguments of a selector of the @s specification

X_typePlayer == <<"t","y","p","e","=","m","i","n","e","c","r","a","f","t",":","p","l","a","y","e","r">>
X_typeNotPig == <<"t","y","p","e","=","!","m","i","n","e","c","r","a","f","t",":","p","i","g">>
X_nameN == <<"n","a","m","e","=","n">>
X_tagA == <<"t","a","g","=","a">>
X_familyPlayer == <<"f","a","m","i","l","y","=","p","l","a","y","e","r">>
X_levelMax == <<"l","=","1">>
X_levelMin == <<"l","m","=","1">>
X_scores == <<"s","c","o","r","e","s","=","{","l","e","v","e","l","=","5",".",".","1","0","}">>
X_torch == <<"h","a","s","i","t","e","m","=","{","i","t","e","m","=","t","o","r","c","h","}">>
X_box == <<"x","=","0",",","d","x","=","1">>

SelfArgs ==
  {X_typePlayer, X_typeNotPig, X_nameN, X_tagA, X_familyPlayer,
   X_levelMax, X_levelMin, X_scores, X_torch, X_box}

\* The executors: a plain player, a pig, a named and tagged player of level
\* 2, players scoring 7 and 4 for the level objective, a player holding a
\* torch, a player standing away from the origin.
Executors ==
  {BasePlayer,
   BaseMob,
   [BasePlayer EXCEPT !.tags = {<<"a">>}, !.nameTag = <<"n">>, !.level = 2],
   [BasePlayer EXCEPT !.scores = {<<O_level, 7>>}],
   [BasePlayer EXCEPT !.scores = {<<O_level, 4>>}],
   [BasePlayer EXCEPT !.inventory = TorchInventory],
   [BasePlayer EXCEPT !.location = [x |-> 2, y |-> 0, z |-> 0]]}

InitSelf ==
  /\ BeforeConstruct
  /\ variant \in Variants
  /\ \E arguments \in Str(SelfArgs, MaxSelfArgs) :
       selectorString = Compose(<<"@", "s">>, arguments)
  /\ executionLocation = <<>>
  /\ executor \in {<<>>, <<1>>}
  /\ \E e \in Executors :
       world = [pool |-> <<e, [BasePlayer EXCEPT !.tags = {<<"a">>}]>>,
                objectives |-> {O_level}]

NextSelf == Construct \/ GetEntities

SpecSelf == InitSelf /\ [][NextSelf]_vars

---------------------------------------------------------------------------
(* C12: @s with no executor.                                               *)

\* C12: for any @s selector, with any arguments, evaluated with no executor,
\* getEntities returns an empty list, without throwing and without querying
\* the pool.
C12_SelfWithoutExecutorIsEmpty ==
  (targetSelectorSymbol = <<"@", "s">> /\ executor = <<>>) =>
    /\ ~thrown
    /\ pc = "done" =>
         /\ entities = <<>>
         /\ trace[1].hostQuery = <<>>
         /\ trace[1].retrieved = <<>>

\* @s[tag=a] was evaluated with no executor, in a world that holds an entity
\* tagged a: nothing was returned.
C12_Witness ==
  /\ pc = "done"
  /\ selectorString = Compose(<<"@", "s">>, <<X_tagA>>)
  /\ executor = <<>>
  /\ <<"a">> \in world.pool[2].tags
  /\ entities = <<>>

---------------------------------------------------------------------------
(* C13: @s with an executor.                                               *)

\* The entity holds a score for the filter's objective within its bounds.
InScoreRange(e, filter) ==
  /\ e.identity
  /\ filter.objective \in world.objectives
  /\ \E p \in e.scores :
       /\ p[1] = filter.objective
       /\ filter.minScore = <<>> \/ p[2] >= filter.minScore[1]
       /\ filter.maxScore = <<>> \/ p[2] <= filter.maxScore[1]

\* Every non-spatial filter of the parsed selector accepts the entity; game
\* mode and level bind players only.
SatisfiesNonSpatialFilters(e) ==
  /\ queryOptions.type = <<>> \/ e.typeId = queryOptions.type[1]
  /\ \A i \in 1..Len(queryOptions.excludeTypes) : e.typeId # queryOptions.excludeTypes[i]
  /\ queryOptions.name = <<>> \/ e.nameTag = queryOptions.name[1]
  /\ \A i \in 1..Len(queryOptions.tags) : queryOptions.tags[i] \in e.tags
  /\ \A i \in 1..Len(queryOptions.excludeTags) : queryOptions.excludeTags[i] \notin e.tags
  /\ \A i \in 1..Len(queryOptions.families) : queryOptions.families[i] \in e.families
  /\ \A i \in 1..Len(queryOptions.excludeFamilies) :
       queryOptions.excludeFamilies[i] \notin e.families
  /\ e.isPlayer =>
       /\ queryOptions.gameMode = <<>> \/ e.gameMode = queryOptions.gameMode[1]
       /\ queryOptions.minLevel = <<>> \/ e.level >= queryOptions.minLevel[1]
       /\ queryOptions.maxLevel = <<>> \/ e.level <= queryOptions.maxLevel[1]
  /\ \A i \in 1..Len(queryOptions.scoreOptions) : InScoreRange(e, queryOptions.scoreOptions[i])
  /\ SatisfiesEveryCondition(e)

\* The entity stands inside the box of the selector, when it has one.
InsideVolumeBox(e) ==
  queryOptions.volume # <<>> =>
    /\ e.location.x \in AxisPositions(queryOptions.location[1].x, queryOptions.volume[1].x)
    /\ e.location.y \in AxisPositions(queryOptions.location[1].y, queryOptions.volume[1].y)
    /\ e.location.z \in AxisPositions(queryOptions.location[1].z, queryOptions.volume[1].z)

\* C13: for @s with an executor the result is [executor] exactly when the
\* executor satisfies every non-spatial filter of the selector (type,
\* excluded types, name, tags, families, game mode, level, every scores
\* filter, every hasitem condition) and lies inside the volume box when
\* dx/dy/dz are given; otherwise it is empty.
C13_SelfIsExecutorIffItMatches ==
  (pc = "done" /\ targetSelectorSymbol = <<"@", "s">> /\ executor # <<>>) =>
    entities = IF /\ SatisfiesNonSpatialFilters(world.pool[executor[1]])
                  /\ InsideVolumeBox(world.pool[executor[1]])
                 THEN executor ELSE <<>>

---------------------------------------------------------------------------
(* C14: the default origin.                                                *)

\* The query carries a distance, volume, rotation, closest or farthest
\* constraint.
HasSpatialConstraint(query) ==
  \/ query.minDistance # <<>> \/ query.maxDistance # <<>>
  \/ query.volume # <<>>
  \/ query.minHorizontalRotation # <<>> \/ query.maxHorizontalRotation # <<>>
  \/ query.minVerticalRotation # <<>> \/ query.maxVerticalRotation # <<>>
  \/ query.closest # <<>> \/ query.farthest # <<>>

\* C14: when the query handed to the pool has a distance, volume, rotation,
\* closest or farthest constraint (the closest = 1 that @p adds included) and
\* the selector gave no x/y/z, the origin of that query is the
\* execution-context location.
C14_OriginDefaultsToExecutionLocation ==
  (/\ pc = "done"
   /\ trace[1].hostQuery # <<>>
   /\ queryOptions.location = <<>>
   /\ executionLocation # <<>>
   /\ HasSpatialConstraint(trace[1].hostQuery[1])) =>
    trace[1].hostQuery[1].location = executionLocation

---------------------------------------------------------------------------
(* Specification of the origin: selectors of up to MaxAxisArgs x/y/z        *)
(* arguments, constructed with and without an explicit location and an     *)
(* executor.                                                               *)

MaxAxisArgs == 3        \* most arguments of a selector of the origin specification

Y_x1 == <<"x","=","1">>
Y_x3 == <<"x","=","3">>
Y_y10 == <<"y","=","1","0">>
Y_zMinus2 == <<"z","=","-","2">>

AxisArgs == {Y_x1, Y_x3, Y_y10, Y_zMinus2, A_tagX}

ExplicitLocation == [x |-> 5, y |-> 6, z |-> 7]
ExecutorLocation == [x |-> 8, y |-> 9, z |-> 4]

InitOrigin ==
  /\ BeforeConstruct
  /\ variant \in Variants
  /\ \E arguments \in Str(AxisArgs, MaxAxisArgs) :
       selectorString = Compose(<<"@", "e">>, arguments)
  /\ executionLocation \in {<<>>, <<ExplicitLocation>>}
  /\ executor \in {<<>>, <<1>>}
  /\ world = [pool |-> <<[BasePlayer EXCEPT !.location = ExecutorLocation]>>,
              objectives |-> {}]

NextOrigin == Construct

SpecOrigin == InitOrigin /\ [][NextOrigin]_vars

---------------------------------------------------------------------------
(* C15: x, y and z.                                                        *)

\* The execution-context location: the explicit location, else the
\* executor's location, else (0,0,0).
ContextLocation(explicit, exec, w) ==
  IF explicit # <<>> THEN explicit[1]
  ELSE IF exec # <<>> THEN w.pool[exec[1]].location
  ELSE [x |-> 0, y |-> 0, z |-> 0]

\* The values the tokens give the axis, in order.
AxisValues(tokens, axis) ==
  LET given == SelectSeq(InterpretedArgs(tokens),
                         LAMBDA a : ArgKey(a) # <<>> /\ TrimmedKey(a) = <<axis>>)
  IN  [i \in 1..Len(given) |-> ParseFloat(TrimmedValue(given[i]))]

\* The last value given to the axis, the context's coordinate when none is.
AxisOf(tokens, axis, inherited) ==
  IF AxisValues(tokens, axis) = <<>> THEN inherited
  ELSE AxisValues(tokens, axis)[Len(AxisValues(tokens, axis))]

\* The origin a list of tokens gives in a context: none without x, y or z.
OriginOf(tokens, ctx) ==
  IF \A axis \in {"x", "y", "z"} : AxisValues(tokens, axis) = <<>> THEN <<>>
  ELSE <<[x |-> AxisOf(tokens, "x", ctx.x),
          y |-> AxisOf(tokens, "y", ctx.y),
          z |-> AxisOf(tokens, "z", ctx.z)]>>

\* C15: the first x, y or z argument initialises the origin to the
\* execution-context location (the explicit location, else the executor's
\* location, else (0,0,0)) and each x/y/z argument overwrites only its own
\* axis: the constructor leaves as origin the context's location with every
\* axis the selector names replaced by the last value given to it.
C15_AxesOverwriteContextLocation ==
  [][(pc = "new" /\ pc' = "parsed") =>
       queryOptions'.location =
         OriginOf(args', ContextLocation(executionLocation, executor, world))]_vars

\* Only y=10 was given, with an executor and no explicit location: x and z
\* come from the executor's location.
C15_Witness ==
  /\ pc = "parsed"
  /\ selectorString = Compose(<<"@", "e">>, <<Y_y10>>)
  /\ executionLocation = <<ExecutorLocation>>
  /\ queryOptions.location = <<[x |-> 8, y |-> 10, z |-> 4]>>

---------------------------------------------------------------------------
(* Specification of the c argument: @e[c=T] for the texts T of up to        *)
(* MaxCountLen pieces, alone and after c=2 or c=-3.                        *)

MaxCountLen == 3        \* most pieces of the text given to c

CountPieces == {<<"1">>, <<"5">>, <<"0">>, <<"-">>, <<"x">>}

CountTexts == {Join(t, <<>>) : t \in Str(CountPieces, MaxCountLen)} \ {<<>>}

K_head == <<"@","e","[">>
K_c == <<"c","=">>

CountPrefixes == {<<>>, <<"c","=","2",",">>, <<"c","=","-","3",",">>}

InitCount ==
  /\ BeforeConstruct
  /\ variant \in Variants
  /\ \E prefix \in CountPrefixes, text \in CountTexts :
       selectorString = K_head \o prefix \o K_c \o text \o <<"]">>
  /\ executionLocation = <<Origin>>
  /\ executor = <<>>
  /\ world = EmptyWorld

NextCount == Construct

SpecCount == InitCount /\ [][NextCount]_vars

---------------------------------------------------------------------------
(* C16: the c argument.                                                    *)

\* The values of the c arguments of the selector, in order.
CountValues ==
  LET given == SelectSeq(InterpretedArgs(args),
                         LAMBDA a : ArgKey(a) # <<>> /\ TrimmedKey(a) = W_c)
  IN  [i \in 1..Len(given) |-> TrimmedValue(given[i])]

\* closest and farthest after the first n values: a positive integer sets
\* closest, a negative one farthest, 0 and any text that is not an integer
\* change nothing.
RECURSIVE CountAfter(_, _)
CountAfter(values, n) ==
  IF n = 0 THEN [closest |-> <<>>, farthest |-> <<>>]
  ELSE IF IsInteger(values[n]) /\ ParseInt(values[n]) > 0
    THEN [CountAfter(values, n - 1) EXCEPT !.closest = <<ParseInt(values[n])>>]
  ELSE IF IsInteger(values[n]) /\ ParseInt(values[n]) < 0
    THEN [CountAfter(values, n - 1) EXCEPT !.farthest = <<0 - ParseInt(values[n])>>]
  ELSE CountAfter(values, n - 1)

\* C16: c with a positive integer N sets closest = N, with a negative
\* integer sets farthest = |N|, and with 0 or a non-numeric value changes
\* neither closest nor farthest.
C16_CountArgument ==
  pc = "parsed" =>
    /\ queryOptions.closest = CountAfter(CountValues, Len(CountValues)).closest
    /\ queryOptions.farthest = CountAfter(CountValues, Len(CountValues)).farthest

---------------------------------------------------------------------------
(* Specification of tags and families: @s with up to MaxTagArgs tag= and   *)
(* family= arguments, run by an executor with every set of the tags a, b   *)
(* and of the families f, g.                                               *)

MaxTagArgs == 3         \* most arguments of a selector of the tag specification

Z_tagA == <<"t","a","g","=","a">>
Z_tagB == <<"t","a","g","=","b">>
Z_tagNotB == <<"t","a","g","=","!","b">>
Z_familyF == <<"f","a","m","i","l","y","=","f">>
Z_familyNotG == <<"f","a","m","i","l","y","=","!","g">>

TagArgs == {Z_tagA, Z_tagB, Z_tagNotB, Z_familyF, Z_familyNotG}

InitTags ==
  /\ BeforeConstruct
  /\ variant \in Variants
  /\ \E arguments \in Str(TagArgs, MaxTagArgs) :
       selectorString = Compose(<<"@", "s">>, arguments)
  /\ executionLocation = <<>>
  /\ executor = <<1>>
  /\ \E tags \in SUBSET {<<"a">>, <<"b">>}, families \in SUBSET {<<"f">>, <<"g">>} :
       world = [pool |-> <<[BaseMob EXCEPT !.tags = tags, !.families = families]>>,
                objectives |-> {}]

NextTags == Construct \/ GetEntities

SpecTags == InitTags /\ [][NextTags]_vars

---------------------------------------------------------------------------
(* C17: tags and families.                                                 *)

\* The values the selector gives the key, in order.
ValuesOf(key) ==
  LET given == SelectSeq(InterpretedArgs(args),
                         LAMBDA a : ArgKey(a) # <<>> /\ TrimmedKey(a) = key)
  IN  [i \in 1..Len(given) |-> TrimmedValue(given[i])]

\* Those written without `!`, and those written with it, the `!` removed.
Required(values) == SelectSeq(values, LAMBDA v : ~StartsWith(v, <<"!">>))
Excluded(values) ==
  LET negated == SelectSeq(values, LAMBDA v : StartsWith(v, <<"!">>))
  IN  [i \in 1..Len(negated) |-> Tail(negated[i])]

\* The set has all the required values and none of the excluded ones.
AllAndNone(held, values) ==
  /\ \A i \in 1..Len(Required(values)) : Required(values)[i] \in held
  /\ \A i \in 1..Len(Excluded(values)) : Excluded(values)[i] \notin held

\* C17: repeated tag= and family= arguments accumulate (`!` values into the
\* exclude list, the others into the include list, all kept in order), and
\* on the @s path the executor is returned iff it has all the required tags
\* and families and none of the excluded ones, for every tag set it has.
C17_TagsAndFamiliesAllAndNone ==
  /\ pc \in {"parsed", "done"} =>
       /\ queryOptions.tags = Required(ValuesOf(W_tag))
       /\ queryOptions.excludeTags = Excluded(ValuesOf(W_tag))
       /\ queryOptions.families = Required(ValuesOf(W_family))
       /\ queryOptions.excludeFamilies = Excluded(ValuesOf(W_family))
  /\ pc = "done" =>
       entities = IF /\ AllAndNone(world.pool[1].tags, ValuesOf(W_tag))
                     /\ AllAndNone(world.pool[1].families, ValuesOf(W_family))
                    THEN <<1>> ELSE <<>>

\* @s[tag=a,tag=b,family=f] run by an executor that has the tag a and the
\* family f and not the tag b: both tags are required and it is refused.
C17_Witness ==
  /\ pc = "done"
  /\ selectorString = Compose(<<"@", "s">>, <<Z_tagA, Z_tagB, Z_familyF>>)
  /\ queryOptions.tags = <<<<"a">>, <<"b">>>>
  /\ world.pool[1].tags = {<<"a">>}
  /\ world.pool[1].families = {<<"f">>}
  /\ entities = <<>>

---------------------------------------------------------------------------
(* Specification of the keys: @e with up to MaxKeyArgs arguments, one per   *)
(* key of the switch and some with a key the switch does not know.         *)

MaxKeyArgs == 2         \* most arguments of a selector of the key specification

KnownKeyArgs ==
  {<<"t","y","p","e","=","a">>, <<"n","a","m","e","=","a">>, <<"t","a","g","=","a">>,
   <<"f","a","m","i","l","y","=","a">>, <<"m","=","a">>, <<"l","=","1">>,
   <<"l","m","=","1">>, <<"x","=","1">>, <<"y","=","1">>, <<"z","=","1">>,
   <<"d","x","=","1">>, <<"d","y","=","1">>, <<"d","z","=","1">>,
   <<"r","=","1">>, <<"r","m","=","1">>, <<"c","=","1">>,
   <<"r","x","=","1">>, <<"r","x","m","=","1">>, <<"r","y","=","1">>,
   <<"r","y","m","=","1">>, <<"s","c","o","r","e","s","=","{","s","=","1","}">>}

UnknownKeyArgs ==
  {<<"f","o","o","=","1">>, <<"T","y","p","e","=","a">>, <<"R","X","=","1">>,
   <<"t","a","g","s","=","a">>}

InitKeys ==
  /\ BeforeConstruct
  /\ variant \in Variants
  /\ \E arguments \in Str(KnownKeyArgs \cup UnknownKeyArgs, MaxKeyArgs) :
       selectorString = Compose(<<"@", "e">>, arguments)
  /\ executionLocation = <<Origin>>
  /\ executor = <<>>
  /\ world = EmptyWorld

NextKeys == Construct

SpecKeys == InitKeys /\ [][NextKeys]_vars

---------------------------------------------------------------------------
(* C18: the keys of the switch.                                            *)

\* The Query field a recognised key is dispatched to; none for any other key.
FieldsOfKey(key) ==
  CASE key = W_type   -> {"type"}
    [] key = W_name   -> {"name"}
    [] key = W_tag    -> {"tags"}
    [] key = W_family -> {"families"}
    [] key = W_m      -> {"gameMode"}
    [] key = W_l      -> {"maxLevel"}
    [] key = W_lm     -> {"minLevel"}
    [] key \in {W_x, W_y, W_z}    -> {"location"}
    [] key \in {W_dx, W_dy, W_dz} -> {"volume"}
    [] key = W_r      -> {"maxDistance"}
    [] key = W_rm     -> {"minDistance"}
    [] key = W_c      -> {"closest"}
    [] key = W_rx     -> {"maxVerticalRotation"}
    [] key = W_rxm    -> {"minVerticalRotation"}
    [] key = W_ry     -> {"maxHorizontalRotation"}
    [] key = W_rym    -> {"minHorizontalRotation"}
    [] key = W_scores -> {"scoreOptions"}
    [] OTHER          -> {}

\* The keys of the arguments of the selector.
WrittenKeys ==
  {TrimmedKey(InterpretedArgs(args)[i]) : i \in 1..Len(InterpretedArgs(args))}

\* C18: an argument whose key is not recognised leaves the Query unchanged
\* and does not stop the other arguments, and every recognised key is
\* dispatched to its field: a field of the Query is set exactly when an
\* argument of the selector has a key dispatched to it; rx/rxm/ry/rym set
\* the pitch and yaw bounds.
C18_KeysAreDispatched ==
  pc = "parsed" =>
    /\ \A field \in DOMAIN EmptyQuery :
         queryOptions[field] # <<>> <=> \E key \in WrittenKeys : field \in FieldsOfKey(key)
    /\ W_rx \in WrittenKeys => queryOptions.maxVerticalRotation = <<1>>
    /\ W_rxm \in WrittenKeys => queryOptions.minVerticalRotation = <<1>>
    /\ W_ry \in WrittenKeys => queryOptions.maxHorizontalRotation = <<1>>
    /\ W_rym \in WrittenKeys => queryOptions.minHorizontalRotation = <<1>>

---------------------------------------------------------------------------
(* C19: malformed tokens.                                                  *)

\* A token with no `=`, or with nothing before its first `=`.
Malformed(token) == ~Includes(token, "=") \/ token[1] = "="

WellFormedTokens == SelectSeq(InterpretedArgs(args), LAMBDA a : ~Malformed(a))

\* C19: a malformed token (no `=`, such as the bare word tag, or an empty
\* key, such as =x) is skipped: the Query and the item conditions after the
\* constructor are those the other tokens give, in their order.
C19_MalformedTokensAreSkipped ==
  pc = "parsed" =>
    /\ queryOptions = InterpretLoop(variant, NotParsed, WellFormedTokens, 1, executionLocation).q
    /\ hasItemFilters = InterpretLoop(variant, NotParsed, WellFormedTokens, 1, executionLocation).items

---------------------------------------------------------------------------
(* Specification of the selector grammar: strings of up to MaxShapePieces   *)
(* pieces among a symbol, an unknown symbol, the brackets and an argument.  *)

MaxShapePieces == 5     \* most pieces of a selector string of the grammar specification

ShapePieces == {<<"@","a">>, <<"@","x">>, <<"[">>, <<"]">>, <<"m","=","a">>}

ShapeStrings == {Join(t, <<>>) : t \in Str(ShapePieces, MaxShapePieces)}

InitShape ==
  /\ BeforeConstruct
  /\ variant \in Variants
  /\ selectorString \in ShapeStrings
  /\ executionLocation = <<Origin>>
  /\ executor = <<>>
  /\ world = EmptyWorld

NextShape == Construct

SpecShape == InitShape /\ [][NextShape]_vars

---------------------------------------------------------------------------
(* C20: selector strings outside the grammar.                              *)

Symbols == {<<"@", c>> : c \in {"p", "a", "r", "s", "e"}}

\* @<symbol>
IsBareSymbol(s) == s \in Symbols

\* @<symbol>[args]
IsSymbolWithArgs(s) ==
  Len(s) >= 4 /\ SubSeq(s, 1, 2) \in Symbols /\ s[3] = "[" /\ s[Len(s)] = "]"

\* [args]
IsArgsOnly(s) == Len(s) >= 2 /\ s[1] = "[" /\ s[Len(s)] = "]"

\* C20: a selector string that matches none of @<symbol>[args], @<symbol>
\* and [args] is parsed as @e with zero constraints and no exception, and a
\* bare [args] string is parsed as @e with those arguments applied.
C20_UnmatchedSelectorFallsBackToAll ==
  pc = "parsed" =>
    /\ ~thrown
    /\ (~IsBareSymbol(selectorString) /\ ~IsSymbolWithArgs(selectorString)
          /\ ~IsArgsOnly(selectorString)) =>
         /\ targetSelectorSymbol = <<"@", "e">>
         /\ queryOptions = EmptyQuery
         /\ hasItemFilters = <<>>
    /\ IsArgsOnly(selectorString) =>
         /\ targetSelectorSymbol = <<"@", "e">>
         /\ queryOptions =
              ParseIfGiven(variant, SubSeq(selectorString, 2, Len(selectorString) - 1),
                           executionLocation).q
         /\ selectorString = <<"[", "m", "=", "a", "]">> => queryOptions.gameMode = <<<<"a">>>>

\* @x[m=a], whose symbol letter is unknown, was parsed: @e and no constraint.
C20_Witness ==
  /\ pc = "parsed"
  /\ selectorString = <<"@", "x", "[", "m", "=", "a", "]">>
  /\ targetSelectorSymbol = <<"@", "e">>
  /\ queryOptions = EmptyQuery

---------------------------------------------------------------------------
(* Specification of inverted ranges: @e[scores={level=A..B}] and           *)
(* @e[hasitem={...}] with a quantity or a slot range A..B, A and B up to   *)
(* MaxRangeBound, over one entity that holds one stack in a container slot *)
(* or wears it.  The conditions of src/unnamed/part_000 are written with   *)
(* `=`, those of src/EntitySelectorParser.ts as JSON.                      *)

MaxRangeBound == 2      \* largest bound of a range A..B

\* The text A..B.
RangeText(a, b) == IntToStr(a) \o <<".", ".">> \o IntToStr(b)

Q_scoresHead == <<"@","e","[","s","c","o","r","e","s","=","{","l","e","v","e","l","=">>
Q_itemHead == <<"@","e","[","h","a","s","i","t","e","m","=","{">>
Q_quantity == <<"q","u","a","n","t","i","t","y","=">>
Q_slot == <<"s","l","o","t","=">>
Q_location == <<"l","o","c","a","t","i","o","n","=">>
Q_jsonQuantity == <<"\"","q","u","a","n","t","i","t","y","\"",":","\"">>
Q_jsonSlot == <<"\"","s","l","o","t","\"",":","\"">>
Q_jsonLocation == <<"\"","l","o","c","a","t","i","o","n","\"",":","\"">>
Q_jsonEnd == <<"\"","}","]">>

\* The locations a condition with a slot range may name.
RangeLocations == {L_inventory, L_hotbar, L_head, L_mainhand}

\* @e[hasitem={<field>=A..B}] and @e[hasitem={location=<l>,slot=A..B}].
ItemRangeSelector(vr, field, location, text) ==
  IF vr = "P0"
    THEN Q_itemHead
           \o (IF location # <<>> THEN Q_location \o location[1] \o <<",">> ELSE <<>>)
           \o (IF field = "quantity" THEN Q_quantity ELSE Q_slot)
           \o text \o R_tail
    ELSE Q_itemHead
           \o (IF location # <<>>
                 THEN Q_jsonLocation \o location[1] \o <<"\"", ",">> ELSE <<>>)
           \o (IF field = "quantity" THEN Q_jsonQuantity ELSE Q_jsonSlot)
           \o text \o Q_jsonEnd

InvertedSelectors(vr) ==
  UNION {{Q_scoresHead \o RangeText(a, b) \o R_tail,
          ItemRangeSelector(vr, "quantity", <<>>, RangeText(a, b)),
          ItemRangeSelector(vr, "slot", <<>>, RangeText(a, b))}
           \cup {ItemRangeSelector(vr, "slot", <<l>>, RangeText(a, b)) :
                   l \in RangeLocations} :
         a \in 0..MaxRangeBound, b \in 0..MaxRangeBound}

\* A container of InventorySize slots with one stack in slot k.
OneStackInventory(k, st) ==
  <<[i \in 1..InventorySize |-> IF i = k THEN <<st>> ELSE <<>>]>>

\* A player or a pig with the stack in one container slot, and a player
\* wearing it on the head or holding it in the main hand.
Holders(st) ==
  {[e EXCEPT !.inventory = OneStackInventory(k, st)] :
     e \in {BasePlayer, BaseMob}, k \in 1..InventorySize}
    \cup {[BasePlayer EXCEPT !.equipment = <<[EmptyEquipment EXCEPT ![s] = <<st>>]>>] :
            s \in {"Head", "Mainhand"}}

InitInverted ==
  /\ BeforeConstruct
  /\ variant \in Variants
  /\ selectorString \in InvertedSelectors(variant)
  /\ executionLocation = <<Origin>>
  /\ executor = <<>>
  /\ \E amount \in 1..MaxRangeBound, score \in 0..MaxRangeBound :
       \E h \in Holders(Stack(I_torch, G_torch, amount)) :
         world = [pool |-> <<[h EXCEPT !.scores = {<<O_level, score>>}]>>,
                  objectives |-> {O_level}]

NextInverted == Construct \/ GetEntities

SpecInverted == InitInverted /\ [][NextInverted]_vars

---------------------------------------------------------------------------
(* C21: an inverted range matches nothing.                                 *)

\* Both bounds present and min > max.
IsInverted(min, max) == min # <<>> /\ max # <<>> /\ min[1] > max[1]

\* Some parsed scores filter, item quantity or item slot range is inverted.
HoldsInvertedRange ==
  \/ \E i \in 1..Len(queryOptions.scoreOptions) :
       IsInverted(queryOptions.scoreOptions[i].minScore,
                  queryOptions.scoreOptions[i].maxScore)
  \/ \E i \in 1..Len(hasItemFilters) :
       \/ /\ hasItemFilters[i].quantity # <<>>
          /\ IsInverted(hasItemFilters[i].quantity[1].min,
                        hasItemFilters[i].quantity[1].max)
       \/ /\ hasItemFilters[i].slot # <<>>
          /\ IsInverted(hasItemFilters[i].slot[1].min, hasItemFilters[i].slot[1].max)

\* C21: a selector whose scores filter, item quantity range or item slot
\* range has min > max is parsed without an error, and its evaluation
\* returns no entity, whichever slot (inventory, hotbar, armor, weapon) the
\* entity's stack is in.
C21_InvertedRangeMatchesNothing ==
  /\ pc \in {"parsed", "done"} => ~thrown
  /\ (pc = "done" /\ HoldsInvertedRange) => entities = <<>>

---------------------------------------------------------------------------
(* Specification of repeated evaluation: one EntitySelector per symbol and *)
(* up to MaxReadOnlyArgs arguments, evaluated up to MaxCalls times over a  *)
(* player and a pig.                                                       *)

MaxReadOnlyArgs == 2    \* most arguments of a selector that is evaluated again

B_cTwo == <<"c","=","2">>
B_cMinusOne == <<"c","=","-","1">>
B_tagA == <<"t","a","g","=","a">>
B_typePig == <<"t","y","p","e","=","m","i","n","e","c","r","a","f","t",":","p","i","g">>
B_scores == <<"s","c","o","r","e","s","=","{","l","e","v","e","l","=","1",".",".","}">>
B_r == <<"r","=","3">>
B_dx == <<"d","x","=","1">>
B_torch == <<"h","a","s","i","t","e","m","=","{","i","t","e","m","=","t","o","r","c","h","}">>

ReadOnlyArgs == {B_cTwo, B_cMinusOne, B_tagA, B_typePig, B_scores, B_r, B_dx, B_torch}

InitReadOnly ==
  /\ BeforeConstruct
  /\ variant \in Variants
  /\ \E c \in SelectorSymbols, arguments \in Str(ReadOnlyArgs, MaxReadOnlyArgs) :
       selectorString = Compose(<<"@", c>>, arguments)
  /\ executionLocation \in {<<>>, <<[x |-> 1, y |-> 0, z |-> 0]>>}
  /\ executor \in {<<>>, <<1>>}
  /\ world = [pool |-> <<[BasePlayer EXCEPT !.tags = {<<"a">>},
                                            !.scores = {<<O_level, 1>>},
                                            !.inventory = TorchInventory],
                         [BaseMob EXCEPT !.location = [x |-> 2, y |-> 0, z |-> 0]]>>,
              objectives |-> {O_level}]

NextReadOnly == Construct \/ GetEntities

SpecReadOnly == InitReadOnly /\ [][NextReadOnly]_vars

---------------------------------------------------------------------------
(* C22: the Query is read-only after construction.                         *)

\* C22: after any number of getEntities calls, under any symbol,
\* targetSelectorSymbol, queryOptions (its lists and its origin included) and
\* hasItemFilters are exactly what parsing the selector string gives: the
\* overrides of an evaluation (forced type, closest = 1, defaulted origin,
\* removed closest / farthest) stay in the query handed to the host.
C22_QueryIsReadOnly ==
  (pc = "done" /\ calls >= 1) =>
    \E r \in {ParseSelectorString(variant, selectorString, executionLocation)} :
      /\ targetSelectorSymbol = r.symbol
      /\ queryOptions = r.q
      /\ hasItemFilters = r.items

\* A second evaluation of @p has handed the host a query with the forced
\* type, closest = 1 and the defaulted origin; the stored Query has none.
C22_Witness ==
  /\ pc = "done"
  /\ calls = MaxCalls
  /\ targetSelectorSymbol = <<"@", "p">>
  /\ trace[1].hostQuery # <<>>
  /\ trace[1].hostQuery[1].type = <<T_player>>
  /\ trace[1].hostQuery[1].closest = <<1>>
  /\ trace[1].hostQuery[1].location # <<>>
  /\ queryOptions.type = <<>>
  /\ queryOptions.closest = <<>>
  /\ queryOptions.location = <<>>

---------------------------------------------------------------------------
(* The message formatters.  Three classes turn an array of RawMessage      *)
(* components into text:                                                   *)
(*   "RMP"  class RawMessageParser of src/RawMessageParser.ts              *)
(*   "RTP"  class RawTextParser of src/RawMessageParser.ts                 *)
(*   "P1"   class RawTextParser of src/unnamed/part_001                    *)
(* A component is [text, translate, score, selector], each optional, score *)
(* being [name, objective]; the components modelled carry no `with` and no *)
(* nested `rawtext`.  The execution source is an entity or is not given.   *)

Formatters == {"RMP", "RTP", "P1"}

\* The character U+00A7 that starts a colour code.
SectionSign == "section"

\* Player.name of the players of the worlds below.
PlayerName == <<"S","t","e","v","e">>

\* Entity.id: the index in the pool, in decimal.
EntityId(id) == IntToStr(id)

ZeroText == <<"0">>

\* text.replace(/§[0-9a-fk-or]/g, "")
IsColourCode(c) ==
  IsDigit(c) \/ c \in {"a", "b", "c", "d", "e", "f", "k", "l", "m", "n", "o", "r"}

RECURSIVE StripColours(_)
StripColours(s) ==
  IF s = <<>> THEN <<>>
  ELSE IF Len(s) >= 2 /\ s[1] = SectionSign /\ IsColourCode(s[2])
    THEN StripColours(SubSeq(s, 3, Len(s)))
  ELSE <<s[1]>> \o StripColours(Tail(s))

\* createExecutionContext(executionSource) for an entity or for undefined.
ExecutionContext(exec, w) ==
  [location |-> IF exec # <<>> THEN <<w.pool[exec[1]].location>> ELSE <<>>,
   executor |-> exec]

\* An exception left `new EntitySelector(...)` or `getEntities()`.
ResolutionThrew == [threw |-> TRUE, entities |-> <<>>]

\* selector.getEntities() of a constructed selector: every outcome, as
\* [threw, entities]; hostThrows says that Dimension.getEntities throws.
EvaluatedSelector(vr, sel, execLoc, exec, w, hostThrows) ==
  IF sel.thrown THEN {ResolutionThrew}
  ELSE {IF hostThrows /\ o.hostQuery # <<>> THEN ResolutionThrew
        ELSE [threw |-> FALSE, entities |-> o.entities] :
          o \in GetEntitiesOutcomes(vr, sel.symbol, sel.q, sel.items, execLoc, exec, w)}

\* new EntitySelector(selectorStr, context.dimension, context.location,
\*                    context.executor).getEntities()
ResolveSelector(vr, selectorStr, ctx, w, hostThrows) ==
  EvaluatedSelector(vr,
                    ParseSelectorString(vr, selectorStr,
                                        LocationOrExecutor(ctx.location, ctx.executor, w)),
                    LocationOrExecutor(ctx.location, ctx.executor, w),
                    ctx.executor, w, hostThrows)

\* One component's contribution: its text, how its selector resolved (<<>>
\* when none was resolved) and whether an exception left the handler.
Contribution(text, resolution) == [text |-> text, resolution |-> resolution, exc |-> FALSE]

\* The callback of selectedEntities.map(...): name or nameTag or typeId, and
\* the id in class RawTextParser of src/RawMessageParser.ts.
EntityLabel(fm, w, id) ==
  IF fm = "RTP" THEN EntityId(id)
  ELSE IF w.pool[id].isPlayer THEN PlayerName
  ELSE IF w.pool[id].nameTag # <<>> THEN w.pool[id].nameTag
  ELSE w.pool[id].typeId

\* The try block of handleSelector for one resolution: the labels joined
\* with ", ", the exception of the resolution going on.
SelectorTry(fm, w, res) ==
  IF res.threw THEN [text |-> <<>>, resolution |-> <<res>>, exc |-> TRUE]
  ELSE IF Len(res.entities) > 0
    THEN Contribution(Join([i \in 1..Len(res.entities) |-> EntityLabel(fm, w, res.entities[i])],
                    <<",", " ">>),
               <<res>>)
  ELSE Contribution(<<>>, <<res>>)

\* catch (e) { console.warn(...) } and the `return ""` that follows.
SelectorCatch(r) == IF r.exc THEN Contribution(<<>>, r.resolution) ELSE r

\* handleSelector(selectorStr, context)
HandleSelector(fm, vr, selectorStr, ctx, w, hostThrows) ==
  {SelectorCatch(SelectorTry(fm, w, res)) :
     res \in ResolveSelector(vr, selectorStr, ctx, w, hostThrows)}

\* objective.getScore(identity) in its try block: String(score), "0" for
\* undefined and "0" when getScore throws (scoreThrows).
ScoreText(e, objective, scoreThrows) ==
  IF scoreThrows THEN ZeroText
  ELSE IF GetScore(e, objective) # <<>> THEN IntToStr(GetScore(e, objective)[1])
  ELSE ZeroText

\* The selector branch of handleScore / getScoreForSelector for one
\* resolution: the score of the first entity when it has a scoreboard
\* identity, "0" otherwise, and "0" from the catch block when the resolution
\* threw.
ScoreOfResolution(w, res, objective, scoreThrows) ==
  IF ~res.threw /\ Len(res.entities) > 0 /\ w.pool[res.entities[1]].identity
    THEN ScoreText(w.pool[res.entities[1]], objective, scoreThrows)
    ELSE ZeroText

\* The participant whose displayName is the name, <<>> when there is none.
FindParticipant(w, name) ==
  IF \E id \in 1..Len(w.pool) : w.pool[id].identity /\ EntityLabel("RMP", w, id) = name
    THEN <<CHOOSE id \in 1..Len(w.pool) :
             /\ w.pool[id].identity /\ EntityLabel("RMP", w, id) = name
             /\ \A j \in 1..(id - 1) :
                  ~(w.pool[j].identity /\ EntityLabel("RMP", w, j) = name)>>
    ELSE <<>>

\* handleScore(scoreInfo, context), and the score branch of
\* parseSingleMessage of class RawTextParser of src/RawMessageParser.ts.
HandleScore(vr, scoreInfo, ctx, w, hostThrows, scoreThrows) ==
  IF scoreInfo.objective \notin w.objectives THEN {Contribution(ZeroText, <<>>)}
  ELSE IF scoreInfo.name = <<"*">>
    THEN {Contribution(IF ctx.executor # <<>> /\ w.pool[ctx.executor[1]].identity
                  THEN ScoreText(w.pool[ctx.executor[1]], scoreInfo.objective, scoreThrows)
                  ELSE ZeroText,
                <<>>)}
  ELSE IF StartsWith(scoreInfo.name, <<"@">>)
    THEN {Contribution(ScoreOfResolution(w, res, scoreInfo.objective, scoreThrows), <<res>>) :
            res \in ResolveSelector(vr, scoreInfo.name, ctx, w, hostThrows)}
  ELSE {Contribution(IF FindParticipant(w, scoreInfo.name) # <<>>
                THEN ScoreText(w.pool[FindParticipant(w, scoreInfo.name)[1]],
                               scoreInfo.objective, scoreThrows)
                ELSE ZeroText,
              <<>>)}

\* handleTranslate(message, context) of a component with no `with`.
HandleTranslate(fm, translate) ==
  IF fm = "RMP" THEN translate ELSE <<"[">> \o translate \o <<"]">>

\* parseSingleMessage(message, context): every contribution the component
\* can make.
ParseSingleMessage(fm, vr, message, ctx, w, hostThrows, scoreThrows) ==
  IF Truthy(message.text)
    THEN {Contribution(IF fm = "RMP" THEN message.text[1] ELSE StripColours(message.text[1]), <<>>)}
  ELSE IF Truthy(message.translate)
    THEN {Contribution(HandleTranslate(fm, message.translate[1]), <<>>)}
  ELSE IF /\ message.score # <<>>
          /\ message.score[1].name # <<>> /\ message.score[1].objective # <<>>
    THEN HandleScore(vr, message.score[1], ctx, w, hostThrows, scoreThrows)
  ELSE IF Truthy(message.selector)
    THEN HandleSelector(fm, vr, message.selector[1], ctx, w, hostThrows)
  ELSE {Contribution(<<>>, <<>>)}

\* parsedObject.map((msg) => this.parseSingleMessage(msg, context)): every
\* list of contributions, the host throwing or not and getScore throwing or
\* not at each component.
MappedMessages(fm, vr, messages, ctx, w) ==
  LET choices(i) ==
        UNION {ParseSingleMessage(fm, vr, messages[i], ctx, w, hostThrows, scoreThrows) :
                 hostThrows \in BOOLEAN, scoreThrows \in BOOLEAN}
  IN  {f \in [1..Len(messages) -> UNION {choices(i) : i \in 1..Len(messages)}] :
         \A i \in 1..Len(messages) : f[i] \in choices(i)}

\* .join("")
JoinedTexts(f) == Join([i \in 1..Len(f) |-> f[i].text], <<>>)

\* parse(rawInput, executionSource), rawInput an array of components
Parse ==
  /\ pc = "format"
  /\ \E f \in MappedMessages(parser, variant, rawInput,
                             ExecutionContext(executor, world), world) :
       /\ pieces' = f
       /\ returned' = <<JoinedTexts(f)>>
       /\ escaped' = \E i \in 1..Len(f) : f[i].exc
  /\ pc' = "formatted"
  /\ UNCHANGED <<variant, selectorString, executionLocation, executor, world, parser,
                 rawInput>>
  /\ UNCHANGED selectorVars

---------------------------------------------------------------------------
(* Specification of the message formatters: parse on an array of up to     *)
(* MaxComponents components, run by the first entity of the pool or with   *)
(* no execution source.                                                    *)

MaxComponents == 2      \* most components of a formatted message

M_all == <<"@","a">>
M_pigs == <<"@","e","[","t","y","p","e","=","m","i","n","e","c","r","a","f","t",":","p","i","g","]">>
M_self == <<"@","s">>
M_hello == <<SectionSign, "a", "h", "i">>
M_key == <<"k">>

NoComponent == [text |-> <<>>, translate |-> <<>>, score |-> <<>>, selector |-> <<>>]

\* Selector components, score components named by a selector, by "*" and by
\* a player name, a text and a translation key.
Components ==
  {[NoComponent EXCEPT !.selector = <<s>>] : s \in {M_all, M_pigs, M_self}}
    \cup {[NoComponent EXCEPT !.score = <<[name |-> n, objective |-> o]>>] :
            n \in {M_all, M_pigs, <<"*">>, PlayerName}, o \in {O_level, M_key}}
    \cup {[NoComponent EXCEPT !.text = <<M_hello>>],
          [NoComponent EXCEPT !.translate = <<M_key>>]}

FormatPools ==
  {<<>>,
   <<[BasePlayer EXCEPT !.scores = {<<O_level, 5>>}]>>,
   <<BasePlayer, [BaseMob EXCEPT !.scores = {<<O_level, 7>>}]>>,
   <<[BaseMob EXCEPT !.identity = FALSE]>>}

InitFormat ==
  /\ pc = "format"
  /\ variant \in Variants
  /\ selectorString = <<>>
  /\ executionLocation = <<>>
  /\ targetSelectorSymbol = <<>>
  /\ queryOptions = EmptyQuery
  /\ hasItemFilters = <<>>
  /\ thrown = FALSE
  /\ argsString = <<>>
  /\ args = <<>>
  /\ entities = <<>>
  /\ trace = <<>>
  /\ calls = 0
  /\ parser \in Formatters
  /\ rawInput \in Str(Components, MaxComponents) \ {<<>>}
  /\ pieces = <<>>
  /\ returned = <<>>
  /\ escaped = FALSE
  /\ \E pool \in FormatPools :
       /\ world = [pool |-> pool, objectives |-> {O_level}]
       /\ executor \in {<<>>} \cup (IF pool # <<>> THEN {<<1>>} ELSE {})

NextFormat == Parse

SpecFormat == InitFormat /\ [][NextFormat]_vars

---------------------------------------------------------------------------
(* C23: selector and score components that resolve to nothing.             *)

\* The component is handled as a selector component, or as a score component
\* whose name is a selector.
NamesSelector(message) ==
  /\ ~Truthy(message.text)
  /\ ~Truthy(message.translate)
  /\ \/ message.score = <<>> /\ Truthy(message.selector)
     \/ message.score # <<>> /\ StartsWith(message.score[1].name, <<"@">>)

\* The component's selector was resolved, to no entity or with an exception.
ResolvedToNothing(piece) ==
  /\ piece.resolution # <<>>
  /\ piece.resolution[1].threw \/ piece.resolution[1].entities = <<>>

\* C23: a selector component and a score component whose name is a selector
\* contribute the empty string when the selector resolves to no entity and
\* when its resolution throws, and no exception leaves parse.
C23_UnresolvedSelectorsContributeNothing ==
  pc = "formatted" =>
    /\ ~escaped
    /\ \A i \in 1..Len(rawInput) :
         (NamesSelector(rawInput[i]) /\ ResolvedToNothing(pieces[i])) =>
           pieces[i].text = <<>>

---------------------------------------------------------------------------
(* Specification of selection by count: @p[hasitem=...] and                *)
(* @e[c=N,hasitem=...] for N in -MaxCount..MaxCount, the condition          *)
(* {item=torch} written with `=` and as JSON, evaluated at the origin over *)
(* MaxPool entities standing at x = 1, 2, ... with and without a torch.    *)

E_pHead == <<"@","p","[">>
E_eHead == <<"@","e","[","c","=">>

CountedSelectors ==
  {E_pHead \o tail : tail \in {SubSeq(D_torchTail, 2, Len(D_torchTail)),
                               SubSeq(D_torchJsonTail, 2, Len(D_torchJsonTail))}}
    \cup {E_eHead \o IntToStr(n) \o tail :
            n \in ((0 - MaxCount)..MaxCount) \ {0}, tail \in {D_torchTail, D_torchJsonTail}}

InitCounted ==
  /\ BeforeConstruct
  /\ variant \in Variants
  /\ selectorString \in CountedSelectors
  /\ executionLocation = <<Origin>>
  /\ executor = <<>>
  /\ \E pool \in [1..MaxPool -> SampledEntities] :
       world = [pool |-> [i \in 1..MaxPool |->
                            [pool[i] EXCEPT !.location = [x |-> i, y |-> 0, z |-> 0]]],
                objectives |-> {}]

NextCounted == Construct \/ GetEntities

SpecCounted == InitCounted /\ [][NextCounted]_vars

---------------------------------------------------------------------------
(* C24: selection by count happens after all filtering.                    *)

\* The entities that satisfy every filter of a selector of CountedSelectors:
\* every item condition and, under @p, the player type.
CountedPool ==
  {id \in 1..Len(world.pool) :
     /\ targetSelectorSymbol = <<"@", "p">> => world.pool[id].typeId = T_player
     /\ SatisfiesEveryCondition(world.pool[id])}

\* Whether the count selects the farthest, and the count N.
SelectsFarthest == targetSelectorSymbol # <<"@", "p">> /\ queryOptions.farthest # <<>>

SelectedCount ==
  IF SelectsFarthest THEN queryOptions.farthest[1]
  ELSE IF queryOptions.closest # <<>> THEN queryOptions.closest[1]
  ELSE 1

\* The N members of the set nearest to (farthest from) the origin, nearest
\* (farthest) first.
NearestOf(ids, n, farthest) ==
  FirstN(SortIds(ids, [id \in ids |->
                         IF farthest
                           THEN 0 - CalculateDistanceSquared(world.pool[id].location, Origin)
                           ELSE CalculateDistanceSquared(world.pool[id].location, Origin)]),
         n)

\* C24: with closest N (c=N, or the 1 of @p) or farthest N, the result is the
\* N entities nearest to (farthest from) the origin among those that satisfy
\* every filter, hasitem included: non-empty if one entity satisfies them,
\* of length N if N do.
C24_CountSelectsAfterFiltering ==
  (pc = "done" /\ hasItemFilters # <<>>) =>
    /\ entities = NearestOf(CountedPool, SelectedCount, SelectsFarthest)
    /\ CountedPool # {} => entities # <<>>
    /\ Cardinality(CountedPool) >= SelectedCount => Len(entities) = SelectedCount

---------------------------------------------------------------------------
(* Specification of @r: no argument, c=N for N in -MaxCount..MaxCount, and *)
(* tag=a or x=0 next to it, evaluated at the origin over MaxPool players   *)
(* and pigs standing at x = 1, 2, ..., with and without the tag a.         *)

J_head == <<"@", "r">>
J_c == <<"c", "=">>
J_x == <<"x", "=", "0">>

SampleArgs ==
  {<<>>, <<B_tagA>>}
    \cup {<<J_c \o IntToStr(n)>> : n \in ((0 - MaxCount)..MaxCount) \ {0}}
    \cup {<<B_tagA, J_c \o IntToStr(n)>> : n \in ((0 - MaxCount)..MaxCount) \ {0}}
    \cup {<<J_x, J_c \o IntToStr(n)>> : n \in ((0 - MaxCount)..MaxCount) \ {0}}

TaggedEntities ==
  {BasePlayer, [BasePlayer EXCEPT !.tags = {<<"a">>}], [BaseMob EXCEPT !.tags = {<<"a">>}]}

InitSample ==
  /\ BeforeConstruct
  /\ variant \in Variants
  /\ \E arguments \in SampleArgs : selectorString = Compose(J_head, arguments)
  /\ executionLocation = <<Origin>>
  /\ executor = <<>>
  /\ \E pool \in [1..MaxPool -> TaggedEntities] :
       world = [pool |-> [i \in 1..MaxPool |->
                            [pool[i] EXCEPT !.location = [x |-> i, y |-> 0, z |-> 0]]],
                objectives |-> {}]

NextSample == Construct \/ GetEntities

SpecSample == InitSample /\ [][NextSample]_vars

---------------------------------------------------------------------------
(* C25: under @r the c argument is a sample count only.                    *)

\* The pool @r samples from: the entities with every required tag, players
\* only when none of type, tags, families, name is given.
SamplePool ==
  {id \in 1..Len(world.pool) :
     /\ \A t \in SeqToSet(queryOptions.tags) : t \in world.pool[id].tags
     /\ (/\ queryOptions.type = <<>> /\ queryOptions.tags = <<>>
         /\ queryOptions.families = <<>> /\ queryOptions.name = <<>>)
          => world.pool[id].typeId = T_player}

\* |N| of c=N, 1 without c.
SampleCount ==
  IF queryOptions.closest # <<>> THEN queryOptions.closest[1]
  ELSE IF queryOptions.farthest # <<>> THEN queryOptions.farthest[1]
  ELSE 1

\* C25: @r returns min(|N|, size of the matching pool) distinct entities of
\* the matching pool (1 at most without c), every entity of the matching
\* pool is returned by some evaluation, and the player type is forced only
\* when none of type, tags, families, name is given.
C25_CountOnlySamples ==
  /\ pc = "done" =>
       /\ Len(entities) = Min2(SampleCount, Cardinality(SamplePool))
       /\ \A i \in 1..Len(entities) : entities[i] \in SamplePool
       /\ \A i, j \in 1..Len(entities) : i # j => entities[i] # entities[j]
  /\ (pc = "parsed" /\ ~thrown) =>
       \A id \in SamplePool :
         \E o \in GetEntitiesOutcomes(variant, targetSelectorSymbol, queryOptions,
                                      hasItemFilters, executionLocation, executor, world) :
           id \in SeqToSet(o.entities)

---------------------------------------------------------------------------
(* Specification of the item matcher alone: _checkSingleEntityHasItem on   *)
(* one HasItemFilter and one entity that holds one stack, in a container   *)
(* slot or in an equipment slot.                                           *)

I_gem == <<"m","y","m","o","d",":","g","e","m">>
G_tool == <<"m","i","n","e","c","r","a","f","t",":","i","s","_","t","o","o","l">>
L_body == L_equippable \o EquipmentSlotLower("Body")

MaxDamage == 2          \* largest durability damage of a stack and of a data field

\* Item patterns: none, two ids, a tag without a namespace, a tag with one.
MatchItems == {<<>>, <<I_torch>>, <<I_gem>>, <<G_torch>>, <<G_tool>>}

\* data: absent, the wildcard -1, 0 and the largest damage.
MatchData == {<<>>, <<0 - 1>>, <<0>>, <<MaxDamage>>}

MatchLocations ==
  {<<>>, <<L_inventory>>, <<L_hotbar>>, <<L_head>>, <<L_mainhand>>, <<L_body>>}

\* slot: absent, the first container slot, from the second one on.
MatchSlots ==
  {<<>>, <<[min |-> <<0>>, max |-> <<0>>]>>, <<[min |-> <<1>>, max |-> <<>>]>>}

\* The filters the parser builds from these fields: the quantity of a
\* condition that names none is {min: 1}.
MatchFilters ==
  {[item |-> i, quantity |-> <<[min |-> <<1>>, max |-> <<>>]>>, data |-> d,
    location |-> l, slot |-> s] :
     i \in MatchItems, d \in MatchData, l \in MatchLocations, s \in MatchSlots}

\* One torch tagged torch, one torch tagged minecraft:is_tool, one gem with
\* no tag; without a durability component, undamaged and damaged.
MatchStacks ==
  {[typeId |-> t[1], tags |-> t[2], amount |-> 1, durability |-> d] :
     t \in {<<I_torch, {G_torch}>>, <<I_torch, {G_tool}>>, <<I_gem, {}>>},
     d \in {<<>>, <<0>>, <<MaxDamage>>}}

\* A player or a pig with the stack in one container slot, and a player
\* with it on the head, in the main hand or in the body slot.
MatchHolders(st) ==
  {[e EXCEPT !.inventory = OneStackInventory(k, st)] :
     e \in {BasePlayer, BaseMob}, k \in 1..InventorySize}
    \cup {[BasePlayer EXCEPT !.equipment = <<[EmptyEquipment EXCEPT ![s] = <<st>>]>>] :
            s \in {"Head", "Mainhand", "Body"}}

\* this._checkSingleEntityHasItem(entity, filter) on every entity of the
\* pool and the first filter: the entities it returns true for.
CheckSingleEntity ==
  /\ pc = "check"
  /\ entities' = SelectSeq([i \in 1..Len(world.pool) |-> i],
                           LAMBDA id : CheckSingleEntityHasItem(variant, world.pool[id],
                                                                hasItemFilters[1]))
  /\ pc' = "checked"
  /\ UNCHANGED <<variant, selectorString, executionLocation, executor,
                 targetSelectorSymbol, queryOptions, hasItemFilters, thrown,
                 argsString, args, world, trace, calls>>
  /\ UNCHANGED formatterVars

InitMatch ==
  /\ pc = "check"
  /\ variant \in Variants
  /\ selectorString = <<>>
  /\ executionLocation = <<>>
  /\ executor = <<>>
  /\ targetSelectorSymbol = SymbolAll
  /\ queryOptions = EmptyQuery
  /\ \E f \in MatchFilters : hasItemFilters = <<f>>
  /\ thrown = FALSE
  /\ argsString = <<>>
  /\ args = <<>>
  /\ entities = <<>>
  /\ trace = <<>>
  /\ calls = 0
  /\ NoFormatter
  /\ \E st \in MatchStacks : \E h \in MatchHolders(st) :
       world = [pool |-> <<h>>, objectives |-> {}]

NextMatch == CheckSingleEntity

SpecMatch == InitMatch /\ [][NextMatch]_vars

\* The filter, the stack and the slot of a state of this specification.
TheFilter == hasItemFilters[1]

TheSlot ==
  CHOOSE slot \in SeqToSet(SlotsToSearch(world.pool[1])) : slot.itemStack # <<>>

TheStack == TheSlot.itemStack[1]

Matched == entities = <<1>>

---------------------------------------------------------------------------
(* C26: the item pattern of a condition.                                   *)

\* The pattern starts with `namespace:`.
HasNamespace(pattern) == \E k \in 2..Len(pattern) : pattern[k] = ":"

\* C26: with the other fields of the condition accepting the slot, a pattern
\* with a namespace prefix matches exactly when the stack's type id equals
\* it, a pattern without one exactly when the stack's tags contain it, and
\* a condition with no pattern matches any stack.
C26_ItemPattern ==
  (/\ pc = "checked"
   /\ TheFilter.data = <<>> /\ TheFilter.location = <<>> /\ TheFilter.slot = <<>>) =>
    (Matched <=>
       IF TheFilter.item = <<>> THEN TRUE
       ELSE IF HasNamespace(TheFilter.item[1]) THEN TheStack.typeId = TheFilter.item[1]
       ELSE TheFilter.item[1] \in TheStack.tags)

---------------------------------------------------------------------------
(* C27: the data field of a condition.                                     *)

\* C27: with the other fields of the condition accepting the slot, data is
\* a wildcard when absent or -1; data = D >= 0 matches a stack with a
\* durability component exactly when its damage is D, and a stack without
\* one exactly when D is 0.
C27_DataField ==
  (/\ pc = "checked"
   /\ TheFilter.item = <<>> /\ TheFilter.location = <<>> /\ TheFilter.slot = <<>>) =>
    (Matched <=>
       IF TheFilter.data = <<>> \/ TheFilter.data = <<0 - 1>> THEN TRUE
       ELSE IF TheStack.durability # <<>> THEN TheStack.durability[1] = TheFilter.data[1]
       ELSE TheFilter.data[1] = 0)

---------------------------------------------------------------------------
(* C28: the location and slot fields of a condition.                       *)

\* The location of the condition accepts the slot's name.
LocationAccepts(location, slotType) ==
  \/ location = <<>>
  \/ location = <<slotType>>
  \/ location = <<L_inventory>> /\ slotType \in {L_inventory, L_hotbar}

IsArmorOrWeaponSlot(slotType) ==
  StartsWith(slotType, L_armor) \/ StartsWith(slotType, L_weapon)

\* C28: with the other fields of the condition accepting the slot, a
\* condition with no slot range matches exactly when its location accepts
\* the slot's name (no location: any name; slot.inventory: slot.inventory
\* and slot.hotbar; otherwise that name only); with a slot range, an
\* indexed slot matches exactly when the location accepts its name and its
\* index is in the range, and a slot without an index matches only if it
\* is an armor or weapon slot the location names.
C28_LocationAndSlot ==
  (/\ pc = "checked"
   /\ TheFilter.item = <<>> /\ TheFilter.data = <<>>) =>
    IF TheFilter.slot = <<>>
      THEN Matched <=> LocationAccepts(TheFilter.location, TheSlot.slotType)
    ELSE IF TheSlot.slotIndex # 0 - 1
      THEN Matched <=> /\ LocationAccepts(TheFilter.location, TheSlot.slotType)
                       /\ InSlotRange(TheFilter.slot[1], TheSlot.slotIndex)
    ELSE Matched => /\ IsArmorOrWeaponSlot(TheSlot.slotType)
                    /\ TheFilter.location = <<TheSlot.slotType>>

---------------------------------------------------------------------------
(* C29: one count selector.                                                *)

\* C29: after parsing a selector with any number of c arguments of any
\* signs, closest and farthest are never both set.
C29_OneCountSelector ==
  pc = "parsed" => ~(queryOptions.closest # <<>> /\ queryOptions.farthest # <<>>)

---------------------------------------------------------------------------
(* C30: the two item matchers.                                             *)

\* C30: _checkSingleEntityHasItem of src/unnamed/part_000 and the one of
\* src/EntitySelectorParser.ts return the same boolean for every entity and
\* every HasItemFilter.
C30_MatchersAgree ==
  pc = "checked" =>
    (Matched <=>
       CheckSingleEntityHasItem(IF variant = "P0" THEN "ESP" ELSE "P0",
                                world.pool[1], TheFilter))

====
